---- MODULE Spec2Model ----
(***************************************************************************)
(* Refinery rename-resolution engine: the Path Authority (TagPathHandler), *)
(* the Dependency Walker (heuristic_deprotect) and the Path Compactor      *)
(* (TagPathHandler.shorten_paths).                                         *)
(*                                                                         *)
(* Strings are sequences of one-character strings, so that lower(),        *)
(* split(), strip(), sorted() and len() are computed, not assumed.         *)
(***************************************************************************)
EXTENDS Integers, Sequences, FiniteSets, TLC

(***************************************************************************)
(* Bounds of the model.                                                    *)
(***************************************************************************)
\* Number of top-level calls (set_path, set_path_by_priority, walk,
\* shorten_paths) made in one behaviour.
MaxOps == 2

\* Largest finite priority a caller proposes (proposals are 0..MaxPriority,
\* or INF).
MaxPriority == 1

(***************************************************************************)
(* Program constants.                                                      *)
(***************************************************************************)
\* refinery.constants.INF (float("inf")); every finite priority is below it.
INF == 1000

\* kw['priority'] = LOW_PRIORITY in rename_tagc.
LOW_PRIORITY == 1

\* index &= 0xFFff
MASK == 65536

\* TagPathHandler._def_priority (kwargs.get('def_priority', 0)).
def_priority == 0

\* Python's None where an identity (tag_id, index) is expected.
NoneId == -1

\* Python's None where a priority is expected (priority=None).
NonePriority == -2000

(***************************************************************************)
(* Python str operations on sequences of characters.                       *)
(***************************************************************************)
\* The characters of the model in code point order (for sorted()).
Chars ==
    << " ", "#", ".", "0", "1", "2", "3", "4", "5", "6", "7", "8", "9",
       "A", "B", "C", "\\", "_",
       "a", "b", "c", "d", "e", "f", "g", "h", "i", "j", "k", "l", "m",
       "n", "o", "p", "q", "r", "s", "t", "u", "v", "w", "x", "y", "z" >>

Ord(c) == CHOOSE i \in DOMAIN Chars : Chars[i] = c

DIGIT_CHARS == {"0", "1", "2", "3", "4", "5", "6", "7", "8", "9"}

DIGIT_US_CHARS == DIGIT_CHARS \cup {"_"}

\* str.lower() on one character.
LowerChar(c) ==
    CASE c = "A" -> "a"
      [] c = "B" -> "b"
      [] c = "C" -> "c"
      [] OTHER -> c

\* str.lower()
Lower(s) == [i \in DOMAIN s |-> LowerChar(s[i])]

\* s < t for Python strings (lexicographic by code point).
RECURSIVE StrLess(_, _)
StrLess(s, t) ==
    IF t = << >> THEN FALSE
    ELSE IF s = << >> THEN TRUE
    ELSE IF s[1] # t[1] THEN Ord(s[1]) < Ord(t[1])
    ELSE StrLess(Tail(s), Tail(t))

\* sorted(names) for a set of strings.
RECURSIVE Sorted(_)
Sorted(names) ==
    IF names = {} THEN << >>
    ELSE LET m == CHOOSE x \in names : \A y \in names : ~StrLess(y, x)
         IN  <<m>> \o Sorted(names \ {m})

\* Index of the first occurrence of character c in s at or after i, 0 if none.
RECURSIVE Find(_, _, _)
Find(s, c, i) ==
    IF i > Len(s) THEN 0
    ELSE IF s[i] = c THEN i
    ELSE Find(s, c, i + 1)

\* Index of the last occurrence of character c in s at or before i, 0 if none.
RECURSIVE RFind(_, _, _)
RFind(s, c, i) ==
    IF i < 1 THEN 0
    ELSE IF s[i] = c THEN i
    ELSE RFind(s, c, i - 1)

\* s[a-1 : b] of Python, 1-based inclusive bounds.
Slice(s, a, b) == IF a > b THEN << >> ELSE SubSeq(s, a, b)

\* str.split(sep) for a one-character separator.
RECURSIVE Split(_, _)
Split(s, sep) ==
    LET i == Find(s, sep, 1)
    IN  IF i = 0 THEN <<s>>
        ELSE <<Slice(s, 1, i - 1)>> \o Split(Slice(s, i + 1, Len(s)), sep)

\* sep.join(pieces)
RECURSIVE Join(_, _)
Join(pieces, sep) ==
    IF pieces = << >> THEN << >>
    ELSE IF Len(pieces) = 1 THEN pieces[1]
    ELSE pieces[1] \o <<sep>> \o Join(Tail(pieces), sep)

\* str.replace(a, b) for one-character a and b.
Replace(s, a, b) == [i \in DOMAIN s |-> IF s[i] = a THEN b ELSE s[i]]

\* str.strip(chars)
RECURSIVE LStripChars(_, _)
LStripChars(s, chars) ==
    IF s # << >> /\ s[1] \in chars THEN LStripChars(Tail(s), chars) ELSE s

RECURSIVE RStripChars(_, _)
RStripChars(s, chars) ==
    IF s # << >> /\ s[Len(s)] \in chars
    THEN RStripChars(Slice(s, 1, Len(s) - 1), chars)
    ELSE s

StripChars(s, chars) == RStripChars(LStripChars(s, chars), chars)

\* str.strip(): the only whitespace of the model is the space.
Strip(s) == StripChars(s, {" "})

\* str.rsplit(sep, 1)
RSplit1(s, sep) ==
    LET i == RFind(s, sep, Len(s))
    IN  IF i = 0 THEN <<s>>
        ELSE <<Slice(s, 1, i - 1), Slice(s, i + 1, Len(s))>>

\* str.startswith(prefix)
StartsWith(s, prefix) ==
    Len(prefix) <= Len(s) /\ SubSeq(s, 1, Len(prefix)) = prefix

\* "%s" % n for a natural number n.
RECURSIVE DecStr(_)
DecStr(n) ==
    IF n < 10 THEN <<Chars[4 + n]>>
    ELSE DecStr(n \div 10) \o <<Chars[4 + (n % 10)]>>

(***************************************************************************)
(* pathlib.PureWindowsPath and os.path on the strings of the model.  No    *)
(* path of the model has a drive or starts with a separator.               *)
(***************************************************************************)
\* Drop the empty and "." components (PureWindowsPath collapses them).
RECURSIVE DropEmpty(_)
DropEmpty(pieces) ==
    IF pieces = << >> THEN << >>
    ELSE IF pieces[1] = << >> \/ pieces[1] = <<".">> THEN DropEmpty(Tail(pieces))
    ELSE <<pieces[1]>> \o DropEmpty(Tail(pieces))

\* PureWindowsPath(s).parts
Parts(s) == DropEmpty(Split(s, "\\"))

\* str(PureWindowsPath(*parts))
PathStr(parts) == IF parts = << >> THEN <<".">> ELSE Join(parts, "\\")

\* PureWindowsPath(name).suffix
Suffix(name) ==
    LET i == RFind(name, ".", Len(name))
    IN  IF 1 < i /\ i < Len(name) THEN Slice(name, i, Len(name)) ELSE << >>

\* PureWindowsPath(*parts).with_suffix(suffix), as parts.  pathlib raises
\* ValueError when the path has an empty name (parts = << >>); callers test
\* that case before they use this.
WithSuffix(parts, suffix) ==
    LET name == parts[Len(parts)]
        stem == Slice(name, 1, Len(name) - Len(Suffix(name)))
    IN  Slice(parts, 1, Len(parts) - 1) \o <<stem \o suffix>>

\* os.path.splitext(name): the extension starts at the last dot, unless only
\* dots come before it.
SplitExt(name) ==
    LET i == RFind(name, ".", Len(name))
    IN  IF i > 0 /\ \E j \in 1..(i - 1) : name[j] # "."
        THEN <<Slice(name, 1, i - 1), Slice(name, i, Len(name))>>
        ELSE <<name, << >> >>

(***************************************************************************)
(* Dictionaries keyed by strings.                                          *)
(***************************************************************************)
\* A local variable: x is bound to a value that the code computes once and
\* then reads several times.
With(x, F(_)) == F(x)

\* d.get(k), NoneId when the key is missing.
MapGet(d, k) == IF k \in DOMAIN d THEN d[k] ELSE NoneId

\* d[k] = v
MapPut(d, k, v) == [x \in (DOMAIN d) \cup {k} |-> IF x = k THEN v ELSE d[x]]

\* d.pop(k, None)
MapPop(d, k) == [x \in (DOMAIN d) \ {k} |-> d[x]]

(***************************************************************************)
(* Tag classes (class_1.enum_name) of the model.                           *)
(***************************************************************************)
\* "bitmap": no rename function is registered for it.
bitmap == <<"b", "i", "t", "m", "a", "p">>

\* "font": no rename function; configured as permanently suffixed.
font == <<"f", "o", "n", "t">>

\* "tag_collection": renamed by rename_tagc.
tag_collection ==
    <<"t", "a", "g", "_", "c", "o", "l", "l", "e", "c", "t", "i", "o", "n">>

\* kwargs.get('perm_suffixed_tag_classes', ())
perm_suffixed_tag_classes == {font}

\* TagPathHandler._root_dir_prefix
root_dir_prefix == << >>

\* "protected_"
protected_ == <<"p", "r", "o", "t", "e", "c", "t", "e", "d", "_">>

(***************************************************************************)
(* TagPathHandler.  A handler h is the record of the object's fields:      *)
(*   index_map      tag index -> [path, class_1, indexed]                  *)
(*   path_map       (path + "." + class).lower() -> tag index              *)
(*   priorities, priority_mins, overwritables   tag index -> value         *)
(***************************************************************************)
\* (ref.path + '.%s' % ref.class_1.enum_name).lower()
FullPath(ref) == Lower(ref.path \o <<".">> \o ref.class_1)

\* __init__ with the priority floor of line 72 set to the default priority
\* for every entry, pinned or not.
TagPathHandlerInit_floor_default(tag_index_array) ==
    LET n == Len(tag_index_array)
        ids == 0..(n - 1)
        ref(i) == tag_index_array[i + 1]
        keys == {FullPath(ref(i)) : i \in ids}
        last(k) == CHOOSE i \in ids :
                      /\ FullPath(ref(i)) = k
                      /\ \A j \in ids : FullPath(ref(j)) = k => j <= i
    IN  [index_map |-> [i \in ids |-> ref(i)],
         path_map |-> [k \in keys |-> last(k)],
         priorities |-> [i \in ids |->
                            IF ref(i).indexed THEN INF ELSE def_priority],
         priority_mins |-> [i \in ids |-> def_priority],
         overwritables |-> [i \in ids |-> ~ref(i).indexed]]

\* TagPathHandler.__init__(tag_index_array)
TagPathHandlerInit(tag_index_array) ==
    LET n == Len(tag_index_array)
        ids == 0..(n - 1)
        ref(i) == tag_index_array[i + 1]
        keys == {FullPath(ref(i)) : i \in ids}
        last(k) == CHOOSE i \in ids :
                      /\ FullPath(ref(i)) = k
                      /\ \A j \in ids : FullPath(ref(j)) = k => j <= i
    IN  [index_map |-> [i \in ids |-> ref(i)],
         path_map |-> [k \in keys |-> last(k)],
         priorities |-> [i \in ids |->
                            IF ref(i).indexed THEN INF ELSE def_priority],
         priority_mins |-> [i \in ids |->
                            IF ref(i).indexed THEN INF ELSE def_priority],
         overwritables |-> [i \in ids |-> ~ref(i).indexed]]

\* index & 0xFFff
Mask(index) == index % MASK

\* index in range(len(self._index_map)), after masking
InRange(h, index) == index # NoneId /\ Mask(index) \in DOMAIN h.index_map

\* TagPathHandler.get_priority
get_priority(h, index) ==
    IF index = NoneId THEN 0 - INF
    ELSE IF Mask(index) \in DOMAIN h.priorities THEN h.priorities[Mask(index)]
    ELSE 0 - INF

\* TagPathHandler.get_priority_min
get_priority_min(h, index) ==
    IF index = NoneId THEN INF
    ELSE IF Mask(index) \in DOMAIN h.priority_mins
    THEN h.priority_mins[Mask(index)]
    ELSE INF

\* TagPathHandler.get_overwritable
get_overwritable(h, index) ==
    IF index = NoneId THEN FALSE
    ELSE IF Mask(index) \in DOMAIN h.overwritables
    THEN h.overwritables[Mask(index)]
    ELSE FALSE

\* TagPathHandler.get_basename: PureWindowsPath(tag_ref.path).name
get_basename(h, index) ==
    IF ~InRange(h, index) THEN << >>
    ELSE With(Parts(h.index_map[Mask(index)].path), LAMBDA parts :
             IF parts = << >> THEN << >> ELSE parts[Len(parts)])

\* TagPathHandler.get_sub_dir.  PureWindowsPath.parts are tuples, so the
\* dirs.pop(0) of the loop body raises AttributeError as soon as the loop
\* condition holds once.
get_sub_dir(h, index, root) ==
    IF ~InRange(h, index) THEN [raised |-> "", ret |-> << >>]
    ELSE
    With(Parts(root), LAMBDA root_dirs :
    With(Parts(h.index_map[Mask(index)].path), LAMBDA parts :
    With(Slice(parts, 1, Len(parts) - 1), LAMBDA dirs :
        IF dirs # << >> /\ root_dirs # << >> /\ dirs[1] = root_dirs[1]
        THEN [raised |-> "AttributeError", ret |-> << >>]
        ELSE IF dirs = << >> THEN [raised |-> "", ret |-> << >>]
        ELSE [raised |-> "", ret |-> PathStr(dirs) \o <<"\\">>])))

\* get_will_overwrite without the get_overwritable test of line 199.
get_will_overwrite_no_pin_test(h, index, priority, override) ==
    LET prio == IF priority = NonePriority THEN def_priority ELSE priority
    IN  IF index = NoneId THEN FALSE
        ELSE IF get_priority(h, index) > prio THEN FALSE
        ELSE IF (get_priority(h, index) = prio
                    \/ h.index_map[Mask(index)].indexed) /\ ~override
        THEN FALSE
        ELSE TRUE

\* get_will_overwrite without the "current priority > candidate" test of
\* line 203.
get_will_overwrite_no_lower_test(h, index, priority, override) ==
    LET prio == IF priority = NonePriority THEN def_priority ELSE priority
    IN  IF index = NoneId THEN FALSE
        ELSE IF ~get_overwritable(h, index) THEN FALSE
        ELSE IF (get_priority(h, index) = prio
                    \/ h.index_map[Mask(index)].indexed) /\ ~override
        THEN FALSE
        ELSE TRUE

\* get_will_overwrite with >= for the > of line 203: an equal priority is
\* turned down before override is looked at.
get_will_overwrite_equal_is_lower(h, index, priority, override) ==
    LET prio == IF priority = NonePriority THEN def_priority ELSE priority
    IN  IF index = NoneId THEN FALSE
        ELSE IF ~get_overwritable(h, index) THEN FALSE
        ELSE IF get_priority(h, index) >= prio THEN FALSE
        ELSE IF h.index_map[Mask(index)].indexed /\ ~override THEN FALSE
        ELSE TRUE

\* get_will_overwrite with "and not override" applied to every proposal: a
\* higher priority is turned down too unless override is given.
get_will_overwrite_needs_override(h, index, priority, override) ==
    LET prio == IF priority = NonePriority THEN def_priority ELSE priority
    IN  IF index = NoneId THEN FALSE
        ELSE IF ~get_overwritable(h, index) THEN FALSE
        ELSE IF get_priority(h, index) > prio THEN FALSE
        ELSE override

\* TagPathHandler.get_will_overwrite; priority None means the default.
get_will_overwrite(h, index, priority, override) ==
    LET prio == IF priority = NonePriority THEN def_priority ELSE priority
    IN  IF index = NoneId THEN FALSE
        ELSE IF ~get_overwritable(h, index) THEN FALSE
        ELSE IF get_priority(h, index) > prio THEN FALSE
        ELSE IF (get_priority(h, index) = prio
                    \/ h.index_map[Mask(index)].indexed) /\ ~override
        THEN FALSE
        ELSE TRUE

\* refinery.util.get_unique_name(collection, default_name, ext, curr_value):
\* probe default_name, default_name#1, default_name#2, ... until the key
\* name + ext is unused or maps to curr_value.
RECURSIVE UniqueProbe(_, _, _, _, _)
UniqueProbe(collection, default_name, ext, curr_value, i) ==
    LET final_name == IF i = 0 THEN default_name
                      ELSE default_name \o <<"#">> \o DecStr(i)
    IN  IF MapGet(collection, final_name \o ext) \in {NoneId, curr_value}
        THEN final_name
        ELSE UniqueProbe(collection, default_name, ext, curr_value, i + 1)

get_unique_name(collection, default_name, ext, curr_value) ==
    UniqueProbe(collection, default_name, ext, curr_value, 0)

\* refinery.util.sanitize_win32_path(path): a PureWindowsPath, given as parts.
sanitize_win32_path(path) == Parts(path)

\* The basename with an automatic "#<digits>" suffix removed (set_path's
\* try block); path_pieces[-1] of an empty list raises and is passed over.
StripAutoSuffix(path_pieces, can_be_digit_suffixed) ==
    IF path_pieces = << >> THEN path_pieces
    ELSE With(RSplit1(path_pieces[Len(path_pieces)], "#"),
              LAMBDA basename_pieces :
                 IF StripChars(basename_pieces[Len(basename_pieces)],
                               IF can_be_digit_suffixed THEN DIGIT_CHARS
                               ELSE DIGIT_US_CHARS) = << >>
                 THEN [path_pieces EXCEPT ![Len(path_pieces)] =
                                              basename_pieces[1]]
                 ELSE path_pieces)

\* The path map update of set_path without line 263: the old key is dropped
\* and the new one is not recorded.
RenameInPathMap_not_recorded(path_map, old_path, new_path, index) ==
    MapPop(path_map, old_path)

\* The path map update of set_path with clear() in place of pop(old_path):
\* the keys of the other tags are dropped as well.
RenameInPathMap_cleared(path_map, old_path, new_path, index) ==
    MapPut(<< >>, new_path, index)

\* self._path_map.pop(old_path, None); self._path_map[new_path] = index
RenameInPathMap(path_map, old_path, new_path, index) ==
    MapPut(MapPop(path_map, old_path), new_path, index)

\* The test of lines 257-260 left out: no new path is refused.
Collides_never(path_map, new_path, index) == FALSE

\* self._path_map.get(new_path, None) not in (None, index): the new path is
\* the key of another tag, and set_path raises KeyError.
Collides(path_map, new_path, index) ==
    MapGet(path_map, new_path) \notin {NoneId, index}

\* The call of lines 247-250 without its last argument: the name the tag
\* itself holds counts as taken.
UniqueNameFor_not_own(path_map, name, ext, index) ==
    get_unique_name(path_map, name, ext, NoneId)

\* get_unique_name(self._path_map, <name>, <ext>, index): the first of name,
\* name#1, name#2, ... that is free or held by the tag itself.
UniqueNameFor(path_map, name, ext, index) ==
    get_unique_name(path_map, name, ext, index)

\* Lines 251-252 left out: the unique name is committed as it is.
PermSuffix_left_out(name, can_be_digit_suffixed) == name

\* if not can_be_digit_suffixed: new_path_no_ext += "_"
PermSuffix(name, can_be_digit_suffixed) ==
    IF can_be_digit_suffixed THEN name ELSE name \o <<"_">>

\* Lines 222-223 left out: an empty or directory-terminated path is kept as
\* it is.
ProtectedName_left_out(new_path_no_ext, index) == new_path_no_ext

\* elif not new_path_no_ext or new_path_no_ext[-1] == "\\":
\*     new_path_no_ext += "protected_%s" % index
ProtectedName(new_path_no_ext, index) ==
    IF new_path_no_ext = << >> \/ new_path_no_ext[Len(new_path_no_ext)] = "\\"
    THEN new_path_no_ext \o protected_ \o DecStr(index)
    ELSE new_path_no_ext

\* TagPathHandler.set_path; returns [h, raised, ret].  p0 .. p4 are the
\* values new_path_no_ext takes at lines 215, 217, 223, 228 and 247-252.
set_path(h, index, new_path_no_ext, ensure_unique_name, ensure_root_prefixed) ==
    IF ~InRange(h, index) THEN [h |-> h, raised |-> "", ret |-> << >>]
    ELSE
    With(Mask(index), LAMBDA idx :
    With(Lower(h.index_map[idx].class_1), LAMBDA cls :
    With(cls \notin perm_suffixed_tag_classes, LAMBDA can_be_digit_suffixed :
    With(<<".">> \o cls, LAMBDA ext :
    With(Lower(new_path_no_ext), LAMBDA p0 :
    With(IF ensure_root_prefixed /\ ~StartsWith(p0, root_dir_prefix)
         THEN root_dir_prefix \o p0 ELSE p0, LAMBDA p1 :
    With(ProtectedName(p1, idx), LAMBDA p2 :
    With(Lower(Strip(PathStr(sanitize_win32_path(p2)))), LAMBDA p3 :
    With(LET unique_issue ==
                 MapGet(h.path_map, p3 \o ext) \notin {NoneId, idx}
             suffix_issue == /\ ~can_be_digit_suffixed
                             /\ p3 # << >>
                             /\ p3[Len(p3)] \in DIGIT_CHARS
             path_pieces == StripAutoSuffix(Parts(p3), can_be_digit_suffixed)
             unique == UniqueNameFor(
                           h.path_map, PathStr(DropEmpty(path_pieces)),
                           (IF can_be_digit_suffixed THEN << >> ELSE <<"_">>)
                               \o ext,
                           idx)
         IN  IF suffix_issue \/ (ensure_unique_name /\ unique_issue)
             THEN PermSuffix(unique, can_be_digit_suffixed)
             ELSE p3, LAMBDA p4 :
    With(Lower(h.index_map[idx].path) \o ext, LAMBDA old_path :
    With(p4 \o ext, LAMBDA new_path :
        IF Collides(h.path_map, new_path, idx)
        THEN [h |-> h, raised |-> "KeyError", ret |-> << >>]
        ELSE [h |-> [h EXCEPT
                       !.path_map = RenameInPathMap(h.path_map, old_path,
                                                    new_path, idx),
                       !.index_map[idx].path = p4],
              raised |-> "", ret |-> new_path])))))))))))

\* TagPathHandler.set_priority
set_priority(h, index, priority) ==
    IF InRange(h, index)
    THEN [h EXCEPT !.priorities[Mask(index)] = priority]
    ELSE h

\* TagPathHandler.set_priority_min
set_priority_min(h, index, priority) ==
    IF InRange(h, index)
    THEN [h EXCEPT !.priority_mins[Mask(index)] = priority]
    ELSE h

\* TagPathHandler.set_overwritable
set_overwritable(h, index, new_val) ==
    IF InRange(h, index)
    THEN [h EXCEPT !.overwritables[Mask(index)] = new_val]
    ELSE h

\* TagPathHandler.set_path_by_priority; returns [h, raised, ret, committed]:
\* committed tells that the proposal was accepted and the path set.
set_path_by_priority(h, index, new_path_no_ext, priority, override) ==
    IF ~InRange(h, index)
    THEN [h |-> h, raised |-> "", ret |-> 0 - INF, committed |-> FALSE]
    ELSE
    With(IF priority = NonePriority THEN def_priority ELSE priority,
         LAMBDA prio :
        IF ~get_will_overwrite(h, index, prio, override)
        THEN [h |-> h, raised |-> "", ret |-> get_priority(h, index),
              committed |-> FALSE]
        ELSE With(set_path(h, index, new_path_no_ext, TRUE, TRUE), LAMBDA r :
                 IF r.raised # ""
                 THEN [h |-> r.h, raised |-> r.raised, ret |-> 0 - INF,
                       committed |-> FALSE]
                 ELSE [h |-> set_priority(r.h, index, prio),
                       raised |-> "", ret |-> prio, committed |-> TRUE]))

(***************************************************************************)
(* TagPathHandler.shorten_paths (the Path Compactor).  The nested dicts    *)
(* paths and new_paths are kept flat: the old trie is the set of its       *)
(* leaves [dirs, name, val], the new trie is the map from a leaf's key     *)
(* path to its value plus the set of its directories.  No name of the      *)
(* model holds a dot, so a leaf key (name + "." + class) never equals a    *)
(* directory name.                                                         *)
(***************************************************************************)
\* KeptPieces without the second loop (lines 474-477): only the leading
\* words shared with the parent are removed.
KeptPieces_leading_only(parent_pieces, name_pieces) ==
    LET pn == Len(parent_pieces)
        nn == Len(name_pieces)
        m == IF pn < nn THEN pn ELSE nn
        lead == CHOOSE k \in 0..m :
                   /\ \A i \in 1..k : parent_pieces[i] = name_pieces[i]
                   /\ (k < m => parent_pieces[k + 1] # name_pieces[k + 1])
    IN  Slice(name_pieces, lead + 1, nn)

\* The pieces name_pieces[start: end] that shorten_name_to_parent keeps
\* (lines 468-477): lead and trail count the iterations the two loops
\* complete before their break.
KeptPieces(parent_pieces, name_pieces) ==
    LET pn == Len(parent_pieces)
        nn == Len(name_pieces)
        m == IF pn < nn THEN pn ELSE nn
        lead == CHOOSE k \in 0..m :
                   /\ \A i \in 1..k : parent_pieces[i] = name_pieces[i]
                   /\ (k < m => parent_pieces[k + 1] # name_pieces[k + 1])
        trail == CHOOSE k \in 0..m :
                   /\ \A i \in 0..(k - 1) :
                         parent_pieces[pn - i] = name_pieces[nn - i]
                   /\ (k < m => parent_pieces[pn - k] # name_pieces[nn - k])
    IN  Slice(name_pieces, lead + 1, nn - trail)

\* TagPathHandler.shorten_name_to_parent
shorten_name_to_parent(parent, name) ==
    Join(KeptPieces(Split(Replace(parent, "_", " "), " "),
                    Split(Replace(name, "_", " "), " ")),
         IF Find(name, "_", 1) # 0 THEN "_" ELSE " ")

\* The orders in which self._path_map.items() can deliver the keys of the
\* path map: a dict iterates in insertion order, which the calls made before
\* decide.
ItemOrders(path_map) ==
    {order \in [1..Cardinality(DOMAIN path_map) -> DOMAIN path_map] :
        \A i, j \in DOMAIN order : i # j => order[i] # order[j]}

\* The leaves of the trie `paths` built from the path map (lines 315-340)
\* when its items come in the given order: val is NoneId for a tag below the
\* limit, pos is the place of the leaf's key in the iteration, and a later
\* key with the same pieces replaces an earlier one (line 340).
TrieLeavesIn(h, max_len, order) ==
    { LET tag_path == sanitize_win32_path(Lower(order[i]))
          n == Len(tag_path)
      IN  [dirs |-> Slice(tag_path, 1, n - 1),
           name |-> tag_path[n],
           val |-> IF Len(PathStr(WithSuffix(tag_path, << >>))) < max_len
                   THEN NoneId ELSE h.path_map[order[i]],
           pos |-> i]
      : i \in {x \in DOMAIN order :
                  \A y \in DOMAIN order :
                      sanitize_win32_path(Lower(order[y]))
                          = sanitize_win32_path(Lower(order[x])) => y <= x} }

\* The trie of the handler.  The insertion order of the path map is not part
\* of the handler record; the keys are taken in sorted order.
TrieLeaves(h, max_len) ==
    TrieLeavesIn(h, max_len, Sorted(DOMAIN h.path_map))

\* The test of line 326 with one segment more left out of the count.
TooNested_one_segment_less(h, max_len) ==
    \E k \in DOMAIN h.path_map :
        (Len(sanitize_win32_path(Lower(k))) - 2) * 4 > max_len

\* (len(tag_path_pieces) - 1)*4 > max_len for some tag path
TooNested(h, max_len) ==
    \E k \in DOMAIN h.path_map :
        (Len(sanitize_win32_path(Lower(k))) - 1) * 4 > max_len

IsPrefix(p, q) == Len(p) <= Len(q) /\ SubSeq(q, 1, Len(p)) = p

\* sorted(curr_paths) for the directory odir of the old trie.
LeafNamesAt(leaves, odir) == {e.name : e \in {x \in leaves : x.dirs = odir}}

DirNamesAt(leaves, odir) ==
    {e.dirs[Len(odir) + 1] :
        e \in {x \in leaves : Len(x.dirs) > Len(odir) /\ IsPrefix(odir, x.dirs)}}

\* The place of a name of the old directory odir in the iteration of the
\* dict curr_paths: that of the first key inserted under it.
FirstPos(leaves, odir, name) ==
    LET under == {e \in leaves :
                     IsPrefix(odir \o <<name>>, e.dirs \o <<e.name>>)}
    IN  (CHOOSE e \in under : \A x \in under : e.pos <= x.pos).pos

\* "for name in curr_paths": the names in the insertion order of the dict,
\* without sorted().
RECURSIVE SiblingOrder_unsorted(_, _, _)
SiblingOrder_unsorted(leaves, odir, names) ==
    IF names = {} THEN << >>
    ELSE LET m == CHOOSE x \in names :
                     \A y \in names :
                         FirstPos(leaves, odir, x) <= FirstPos(leaves, odir, y)
         IN  <<m>> \o SiblingOrder_unsorted(leaves, odir, names \ {m})

\* "for name in sorted(curr_paths)" (line 352): the order in which the names
\* of one directory are visited.
SiblingOrder(leaves, odir, names) == Sorted(names)

\* The dict curr_new_paths of the directory ndir of the new trie; a
\* sub-directory maps to a dict, written 0 - 2.
NewLevel(new, ndir) ==
    LET lkeys == {p \in DOMAIN new.leaves :
                     Len(p) = Len(ndir) + 1 /\ IsPrefix(ndir, p)}
        dkeys == {d \in new.dirs : Len(d) = Len(ndir) + 1 /\ IsPrefix(ndir, d)}
        names == {p[Len(p)] : p \in lkeys \cup dkeys}
    IN  [n \in names |->
            IF ndir \o <<n>> \in new.dirs THEN 0 - 2
            ELSE new.leaves[ndir \o <<n>>]]

\* The first pass (lines 351-416) over the names of one old directory.
\* st = [new, reparent, raised]: the new trie, the number of items queued in
\* `reparent` at this level, and "AttributeError" once the missing
\* self.get_unique_name is reached.
RECURSIVE FirstPassNames(_, _, _, _, _, _, _)
RECURSIVE FirstPassDir(_, _, _, _, _)
FirstPassDir(leaves, odir, parent, ndir, st) ==
    FirstPassNames(leaves, odir, parent, ndir,
                   SiblingOrder(leaves, odir,
                                LeafNamesAt(leaves, odir)
                                    \cup DirNamesAt(leaves, odir)),
                   1, [st EXCEPT !.reparent = 0])

FirstPassNames(leaves, odir, parent, ndir, names, k, st) ==
    IF st.raised # "" \/ k > Len(names) THEN st
    ELSE
    With(names[k], LAMBDA name :
        IF name \in LeafNamesAt(leaves, odir)
        THEN \* reached a filename
             With((CHOOSE e \in leaves : e.dirs = odir /\ e.name = name).val,
                  LAMBDA val :
             With(SplitExt(name), LAMBDA base_ext :
             With(IF val # NoneId
                  THEN shorten_name_to_parent(parent, base_ext[1])
                  ELSE base_ext[1], LAMBDA new_base :
                 FirstPassNames(
                     leaves, odir, parent, ndir, names, k + 1,
                     IF new_base # << >>
                     THEN [st EXCEPT !.new.leaves =
                              MapPut(@, ndir \o <<new_base \o base_ext[2]>>,
                                     val)]
                     ELSE [st EXCEPT !.reparent = @ + 1]))))
        ELSE \* a non-empty directory: jump into it
             With(get_unique_name(NewLevel(st.new, ndir),
                                  shorten_name_to_parent(parent, name),
                                  << >>, 0 - 3), LAMBDA new_name :
             With(FirstPassDir(
                      leaves, odir \o <<name>>,
                      IF new_name # << >> THEN new_name ELSE parent,
                      IF new_name # << >> THEN ndir \o <<new_name>> ELSE ndir,
                      IF new_name # << >>
                      THEN [st EXCEPT !.new.dirs = @ \cup {ndir \o <<new_name>>}]
                      ELSE st), LAMBDA sub :
                 \* back in this directory: re-parent what the
                 \* sub-directory queued
                 FirstPassNames(
                     leaves, odir, parent, ndir, names, k + 1,
                     [sub EXCEPT
                        !.reparent = st.reparent,
                        !.raised = IF sub.raised = "" /\ sub.reparent > 0
                                   THEN "AttributeError" ELSE sub.raised]))))

\* The first pass over the whole trie.
FirstPassFrom(leaves) ==
    FirstPassDir(leaves, << >>, << >>, << >>,
                 [new |-> [leaves |-> << >>, dirs |-> {}],
                  reparent |-> 0, raised |-> ""])

FirstPass(h, max_len) == FirstPassFrom(TrieLeaves(h, max_len))

\* The test of line 434 without "or val.indexed".
SkipsRename_only_none(h, val) == val = NoneId

\* "if val is None or val.indexed: continue" of the second pass: the leaf is
\* left alone.
SkipsRename(h, val) == val = NoneId \/ h.index_map[val].indexed

\* The second pass (lines 419-452): the leaves to rename, in the order the
\* loop reaches them, each with the directory pieces it is renamed from.
RECURSIVE SecondPassNames(_, _, _, _, _)
RECURSIVE SecondPassDir(_, _, _)
SecondPassDir(h, new, ndir) ==
    SecondPassNames(h, new, ndir, Sorted(DOMAIN NewLevel(new, ndir)), 1)

SecondPassNames(h, new, ndir, names, k) ==
    IF k > Len(names) THEN << >>
    ELSE
    LET name == names[k]
        rest == SecondPassNames(h, new, ndir, names, k + 1)
    IN  IF ndir \o <<name>> \in new.dirs
        THEN SecondPassDir(h, new, ndir \o <<name>>) \o rest
        ELSE LET val == new.leaves[ndir \o <<name>>]
             IN  IF SkipsRename(h, val) THEN rest
                 ELSE << [val |-> val, path_pieces |-> ndir, name |-> name] >>
                        \o rest

\* val.path = PureWindowsPath(*path_pieces).with_suffix(
\*     PureWindowsPath(name).suffix), for the renames in order; with_suffix
\* raises ValueError for a leaf of the top directory (no path pieces).
RECURSIVE ApplyRenames(_, _, _)
ApplyRenames(h, renames, k) ==
    IF k > Len(renames) THEN [h |-> h, raised |-> ""]
    ELSE LET r == renames[k]
         IN  IF r.path_pieces = << >> THEN [h |-> h, raised |-> "ValueError"]
             ELSE ApplyRenames(
                      [h EXCEPT !.index_map[r.val].path =
                          PathStr(WithSuffix(r.path_pieces, Suffix(r.name)))],
                      renames, k + 1)

\* Lines 454-462: the path map is cleared and refilled in index order;
\* tag_path + "." raises TypeError at the first tag whose path was replaced
\* by a PureWindowsPath.
RemakePathMap(h, renamed) ==
    LET ids == DOMAIN h.index_map
        upto == IF renamed = {} THEN ids
                ELSE {i \in ids : \A j \in renamed : i < j}
        keys == {FullPath(h.index_map[i]) : i \in upto}
        last(k) == CHOOSE i \in upto :
                      /\ FullPath(h.index_map[i]) = k
                      /\ \A j \in upto : FullPath(h.index_map[j]) = k => j <= i
    IN  [h |-> [h EXCEPT !.path_map = [k \in keys |-> last(k)]],
         raised |-> IF renamed = {} THEN "" ELSE "TypeError"]

\* shorten_paths with the trie `paths` that lines 315-340 build given as
\* leaves; returns [h, raised, printed].
ShortenTrie(h, max_len, print_errors, leaves) ==
    IF TooNested(h, max_len)
    THEN [h |-> h, raised |-> IF print_errors THEN "" ELSE "ValueError",
          printed |-> print_errors]
    ELSE
    With(FirstPassFrom(leaves), LAMBDA first :
        IF first.raised # ""
        THEN [h |-> h, raised |-> first.raised, printed |-> FALSE]
        ELSE
        With(SecondPassDir(h, first.new, << >>), LAMBDA renames :
        With(ApplyRenames(h, renames, 1), LAMBDA applied :
            IF applied.raised # ""
            THEN [h |-> applied.h, raised |-> applied.raised,
                  printed |-> FALSE]
            ELSE
            With(RemakePathMap(applied.h,
                               {renames[k].val : k \in 1..Len(renames)}),
                 LAMBDA remade :
                [h |-> remade.h, raised |-> remade.raised,
                 printed |-> FALSE]))))

\* TagPathHandler.shorten_paths(max_len, print_errors=...)
shorten_paths(h, max_len, print_errors) ==
    ShortenTrie(h, max_len, print_errors, TrieLeaves(h, max_len))

(***************************************************************************)
(* heuristic_deprotect (the Walker) and rename_tagc (the Naming Policy of  *)
(* tag_collection).  A call that reaches a rename function is a frame of   *)
(* the call stack; seen is the one set object shared by the call tree.     *)
(***************************************************************************)
\* refinery.heuristic_deprotection.util.MinPriority: assigning val keeps the
\* minimum.
MinPriorityFold(val, new_val) == IF new_val < val THEN new_val ELSE val

\* Line 48 without the decrement: every call passes on the depth it was
\* given.
DepthMinusOne_kept(depth) == depth

\* kw["depth"] - 1, where INF - 1 = INF.
DepthMinusOne(depth) == IF depth = INF THEN INF ELSE depth - 1

\* recursive_rename_functions.get(class_1.enum_name) is not None
HasRenameFunc(enum_name) == enum_name = tag_collection

\* WalkDecision without the test of line 36: a tag that is in seen, or that
\* is reached with a depth below 0, is treated like any other.
WalkDecision_no_stop(h, seen_set, tag_id, kw) ==
    IF tag_id = NoneId \/ ~InRange(h, tag_id) THEN "INF"
    ELSE LET tag_index_id == Mask(tag_id)
             priority == kw.priority
             curr_min_prio == get_priority_min(h, tag_index_id)
         IN  IF \/ ~kw.use_minimum_priorities
                \/ priority = NonePriority
                \/ curr_min_prio < priority
             THEN "go"
             ELSE IF \/ curr_min_prio > priority
                     \/ (kw.use_minimum_equal_priorities
                           /\ kw.return_on_equal_min_priority)
             THEN "min"
             ELSE "go"

\* WalkDecision with the tests of lines 41-46 left out: the priority floor
\* never ends a call.
WalkDecision_no_floor_test(h, seen_set, tag_id, kw) ==
    IF tag_id = NoneId \/ ~InRange(h, tag_id) THEN "INF"
    ELSE IF Mask(tag_id) \in seen_set \/ kw.depth < 0 THEN "min"
    ELSE "go"

\* Lines 21-46 of heuristic_deprotect: "INF" and "min" are the early returns
\* (of INF, of the tag's priority floor); "go" is the full traversal.
WalkDecision(h, seen_set, tag_id, kw) ==
    IF tag_id = NoneId \/ ~InRange(h, tag_id) THEN "INF"
    ELSE LET tag_index_id == Mask(tag_id)
             priority == kw.priority
             curr_min_prio == get_priority_min(h, tag_index_id)
         IN  IF tag_index_id \in seen_set \/ kw.depth < 0 THEN "min"
             ELSE IF \/ ~kw.use_minimum_priorities
                     \/ priority = NonePriority
                     \/ curr_min_prio < priority
             THEN "go"
             ELSE IF \/ curr_min_prio > priority
                     \/ (kw.use_minimum_equal_priorities
                           /\ kw.return_on_equal_min_priority)
             THEN "min"
             ELSE "go"

\* Line 65 left out: the tag stays in seen when its call returns.
SeenRemove_left_out(seen_set, tag_index_id) == seen_set

\* seen.remove(tag_index_id)
SeenRemove(seen_set, tag_index_id) == seen_set \ {tag_index_id}

\* The frame of a call that runs a rename function.
NewFrame(tag_id, root_dir, sub_dir, name, kw) ==
    [tag_id |-> tag_id, root_dir |-> root_dir, sub_dir |-> sub_dir,
     name |-> name, kw |-> [kw EXCEPT !.depth = DepthMinusOne(kw.depth)],
     min_priority |-> INF, pc |-> "start", next |-> 1]

\* FoldIntoCaller with the returned value stored as it is, not folded into
\* the minimum.
FoldIntoCaller_overwrites(frames, val) ==
    IF frames = << >> THEN frames
    ELSE [frames EXCEPT
            ![Len(frames)].min_priority = val,
            ![Len(frames)].next = @ + 1]

\* FoldIntoCaller with the returned value dropped: the loop moves on and the
\* accumulator keeps its value.
FoldIntoCaller_dropped(frames, val) ==
    IF frames = << >> THEN frames
    ELSE [frames EXCEPT ![Len(frames)].next = @ + 1]

\* The caller's side of a returned call: "min_prio.val = heuristic_deprotect(..)"
\* in rename_tagc's loop.
FoldIntoCaller(frames, val) ==
    IF frames = << >> THEN frames
    ELSE [frames EXCEPT
            ![Len(frames)].min_priority = MinPriorityFold(@, val),
            ![Len(frames)].next = @ + 1]

\* rename_tagc, lines 2100 and 2112-2114: the tag's own proposal, under the
\* name "protected_%s" % tag_id when no name is given.
rename_tagc_proposal(h, tag_id, root_dir, sub_dir, name, override) ==
    set_path_by_priority(
        h, tag_id,
        root_dir \o sub_dir
            \o (IF name = << >> THEN protected_ \o DecStr(tag_id) ELSE name),
        LOW_PRIORITY, override)

\* The path of line 61 without sub_dir.
ProposedPath_no_sub_dir(root_dir, sub_dir, name) == root_dir \o name

\* root_dir + sub_dir + name, the path proposed for a tag that has no rename
\* function.
ProposedPath(root_dir, sub_dir, name) == root_dir \o sub_dir \o name

\* The reference chain of a call made from the rename function of the top
\* frame: the tags of the calls in progress, then the tag called.
Chain(frames, tag_index_id) ==
    [k \in 1..Len(frames) |-> Mask(frames[k].tag_id)] \o <<tag_index_id>>

\* One call of heuristic_deprotect up to the point where it either returns
\* or enters a rename function: [h, seen, frames, returned, val, accepted,
\* visited].  frames is the stack of the callers; accepted is the set of
\* <<tag, priority>> proposals that set_path_by_priority committed; visited
\* holds the reference chain of the call if it went past the early returns
\* (lines 48-49 were reached).
WalkCall(h, seen_set, frames, tag_id, root_dir, sub_dir, name, kw) ==
    With(WalkDecision(h, seen_set, tag_id, kw), LAMBDA d :
    With(Mask(tag_id), LAMBDA tag_index_id :
        IF d = "INF"
        THEN [h |-> h, seen |-> seen_set, frames |-> FoldIntoCaller(frames, INF),
              returned |-> TRUE, val |-> INF, accepted |-> {},
              visited |-> << >>]
        ELSE IF d = "min"
        THEN With(get_priority_min(h, tag_index_id), LAMBDA v :
                  [h |-> h, seen |-> seen_set,
                   frames |-> FoldIntoCaller(frames, v),
                   returned |-> TRUE, val |-> v, accepted |-> {},
                   visited |-> << >>])
        ELSE IF HasRenameFunc(h.index_map[tag_index_id].class_1)
        THEN [h |-> h, seen |-> seen_set \cup {tag_index_id},
              frames |-> Append(frames,
                                NewFrame(tag_id, root_dir, sub_dir, name, kw)),
              returned |-> FALSE, val |-> INF, accepted |-> {},
              visited |-> <<Chain(frames, tag_index_id)>>]
        ELSE With(set_path_by_priority(h, tag_id,
                                       ProposedPath(root_dir, sub_dir, name),
                                       kw.priority, kw.override), LAMBDA r :
             With(MinPriorityFold(INF, r.ret), LAMBDA v :
                  [h |-> set_priority_min(r.h, tag_index_id, v),
                   seen |-> seen_set,
                   frames |-> FoldIntoCaller(frames, v),
                   returned |-> TRUE, val |-> v,
                   accepted |-> IF r.committed THEN {<<tag_index_id, r.ret>>}
                                ELSE {},
                   visited |-> <<Chain(frames, tag_index_id)>>]))))

(***************************************************************************)
(* Inputs of the model: the tag indexes a handler is built from and the    *)
(* arguments callers pass.                                                 *)
(***************************************************************************)
Tag(path, class_1, indexed) ==
    [path |-> path, class_1 |-> class_1, indexed |-> indexed]

\* halo_map.get_meta(tag_id) of a tag: its references, or None.
Meta(refs) == [present |-> TRUE, refs |-> refs]

NoMeta == [present |-> FALSE, refs |-> << >>]

\* Two bitmaps (one pinned) and a font that shares the bitmap's path.
IndexPlain ==
    [tag_index |-> << Tag(<<"a">>, bitmap, FALSE),
                      Tag(<<"b">>, bitmap, TRUE),
                      Tag(<<"a">>, font, FALSE) >>,
     meta |-> << NoMeta, NoMeta, NoMeta >>]

\* Two tag collections that reference each other, and a bitmap.
IndexCycle ==
    [tag_index |-> << Tag(<<"p">>, tag_collection, FALSE),
                      Tag(<<"q">>, tag_collection, FALSE),
                      Tag(<<"c">>, bitmap, FALSE) >>,
     meta |-> << Meta(<<1>>), Meta(<<0, 2>>), NoMeta >>]

\* A tag collection of two bitmaps; the second bitmap holds the name the
\* first one is given by a walk from the collection.
IndexShared ==
    [tag_index |-> << Tag(<<"p">>, tag_collection, FALSE),
                      Tag(<<"q">>, bitmap, FALSE),
                      Tag(<<"a", "\\", "p", "r", "o", "t", "e", "c", "t", "e",
                            "d", "_", "1">>, bitmap, FALSE) >>,
     meta |-> << Meta(<<1, 2>>), NoMeta, NoMeta >>]

TagIndexes == {IndexPlain, IndexCycle, IndexShared}

\* Identities callers pass.
CallIds == {0, 1, 2}

\* Paths and names callers pass.
RawPaths == { <<"a">>, <<"B">>, << >> }

\* root_dir arguments of a walk.
RootDirs == { << >>, <<"r", "\\">> }

\* Paths proposed through set_path_by_priority.
PriorityPaths == { <<"a">>, << >> }

\* Two bitmaps of one directory, the first with the words of the second, and
\* a pinned bitmap.
IndexFold ==
    [tag_index |-> << Tag(<<"b", "\\", "b", "_", "c">>, bitmap, FALSE),
                      Tag(<<"b", "\\", "c">>, bitmap, FALSE),
                      Tag(<<"b", "\\", "b", "b", "_", "d">>, bitmap, TRUE) >>,
     meta |-> << NoMeta, NoMeta, NoMeta >>]

\* A bitmap named by the words of its directory, a second bitmap of that
\* directory, and a bitmap of the top directory.
IndexDeep ==
    [tag_index |-> << Tag(<<"c", "\\", "c", "_", "c">>, bitmap, FALSE),
                      Tag(<<"c", "\\", "d", "_", "e">>, bitmap, FALSE),
                      Tag(<<"l", "o", "n", "g">>, bitmap, FALSE) >>,
     meta |-> << NoMeta, NoMeta, NoMeta >>]

CompactIndexes == {IndexFold, IndexDeep}

\* max_len arguments of shorten_paths.
Budgets == {2, 4, 5, 6}

\* Two fonts and a bitmap; the bitmap has the path of the first font.
IndexFonts ==
    [tag_index |-> << Tag(<<"a">>, font, FALSE),
                      Tag(<<"b">>, font, FALSE),
                      Tag(<<"a">>, bitmap, FALSE) >>,
     meta |-> << NoMeta, NoMeta, NoMeta >>]

\* Paths callers pass to set_path, one that ends in a digit among them.
SuffixPaths == RawPaths \cup { <<"a", "1">> }

\* Names a top-level walk proposes.
WalkNames == { <<"a">> }

\* A tag collection whose references are None, an identity that is not in
\* the index and a bitmap three directories deep; a second bitmap.
IndexRefs ==
    [tag_index |-> << Tag(<<"p">>, tag_collection, FALSE),
                      Tag(<<"b", "\\", "c", "\\", "d">>, bitmap, FALSE),
                      Tag(<<"a">>, bitmap, FALSE) >>,
     meta |-> << Meta(<<NoneId, 3, 1>>), NoMeta, NoMeta >>]

\* Identities callers pass: None, identities of the index with and without
\* bits above the low 16, and identities that are not in the index.
AnyIds == {NoneId, 0, 1, 3, MASK, MASK + 1, MASK + 3}

\* Paths callers pass to set_path, a directory-terminated one among them.
AnyPaths == RawPaths \cup { <<"C", "\\">> }

\* root arguments of get_sub_dir.
SubDirRoots ==
    { << >>, <<"r", "\\">>, <<"b", "\\">>, <<"b", "\\", "c", "\\">> }

\* name arguments of a walk, the default "" among them.
AnyWalkNames == { << >>, <<"a">> }

\* Words that directory and file names are made of.
pistol == <<"p", "i", "s", "t", "o", "l">>

barrel == <<"b", "a", "r", "r", "e", "l">>

NameWords == { <<"a">>, <<"b">> }

\* Names of one to three words, joined by "_" or by " ", one name with both
\* separators, the empty name, and the names of the pistol directory.
FoldNames ==
    { Join(ws, sep) :
        ws \in UNION {[1..n -> NameWords] : n \in 1..3}, sep \in {"_", " "} }
    \cup { <<"a", "_", "b", " ", "a">>, << >>,
           pistol, pistol \o <<"_">> \o barrel }

\* Priorities callers pass (None is the default priority).
CallPriorities == (1..MaxPriority) \cup {NonePriority, INF}

\* **kw of a top-level walk.
Kw(priority, override, use_min, use_min_equal, return_on_equal, depth) ==
    [priority |-> priority, override |-> override,
     use_minimum_priorities |-> use_min,
     use_minimum_equal_priorities |-> use_min_equal,
     return_on_equal_min_priority |-> return_on_equal,
     depth |-> depth]

WalkOptions ==
    { Kw(NonePriority, FALSE, FALSE, FALSE, FALSE, INF),
      Kw(MaxPriority, TRUE, FALSE, FALSE, FALSE, INF),
      Kw(MaxPriority, FALSE, TRUE, FALSE, TRUE, INF),
      Kw(MaxPriority, FALSE, FALSE, FALSE, FALSE, 0) }

\* **kw of a walk: the defaults, and a priority with override.
FewWalkOptions ==
    { Kw(NonePriority, FALSE, FALSE, FALSE, FALSE, INF),
      Kw(MaxPriority, TRUE, FALSE, FALSE, FALSE, INF) }

\* A diamond of tag collections: A (0) references B (1) and C (2), both of
\* which reference D (3); D references a pinned bitmap (4).
IndexDiamond ==
    [tag_index |-> << Tag(<<"p">>, tag_collection, FALSE),
                      Tag(<<"q">>, tag_collection, FALSE),
                      Tag(<<"r">>, tag_collection, FALSE),
                      Tag(<<"s">>, tag_collection, FALSE),
                      Tag(<<"b">>, bitmap, TRUE) >>,
     meta |-> << Meta(<<1, 2>>), Meta(<<3>>), Meta(<<3>>), Meta(<<4>>),
                 NoMeta >>]

\* Tags a walk of the diamond starts at: A and D (in the index of three
\* tags, an identity that is not in the index).
DiamondIds == {0, 3}

\* **kw of a walk of the diamond: a priority with override; a depth of 1 and
\* of 0; use_minimum_priorities with a priority and with the default
\* priority given as a number.
DiamondOptions ==
    { Kw(MaxPriority, TRUE, FALSE, FALSE, FALSE, INF),
      Kw(NonePriority, FALSE, FALSE, FALSE, FALSE, 1),
      Kw(NonePriority, FALSE, FALSE, FALSE, FALSE, 0),
      Kw(MaxPriority, FALSE, TRUE, FALSE, FALSE, INF),
      Kw(def_priority, FALSE, TRUE, FALSE, FALSE, INF) }

(***************************************************************************)
(* State.                                                                  *)
(***************************************************************************)
VARIABLES
    tag_path_handler,   \* the TagPathHandler
    halo_map,           \* tag index -> meta (fixed for a run)
    stack,              \* frames of the heuristic_deprotect calls in progress
    seen,               \* kw["seen"] of the walk in progress
    call,               \* the last top-level call and its arguments
    before,             \* the TagPathHandler when that call was made
    returned,           \* the priority the last completed call returned
    raised,             \* the exception that ended the run, "" if none
    nops,               \* number of top-level calls made
    accepted_max        \* tag -> highest of its initial priority and the
                        \* priorities set_path_by_priority committed for it

vars == << tag_path_handler, halo_map, stack, seen, call, before, returned,
           raised, nops, accepted_max >>

NoCall == [op |-> "none"]

InitFrom(indexes) ==
    \E idx \in indexes :
        /\ tag_path_handler = TagPathHandlerInit(idx.tag_index)
        /\ halo_map = idx.meta
        /\ stack = << >>
        /\ seen = {}
        /\ call = NoCall
        /\ before = TagPathHandlerInit(idx.tag_index)
        /\ returned = NonePriority
        /\ raised = ""
        /\ nops = 0
        /\ accepted_max = TagPathHandlerInit(idx.tag_index).priorities

Init == InitFrom(TagIndexes)

\* A top-level call may start.
Idle == raised = "" /\ stack = << >> /\ nops < MaxOps

\* accepted_max after the <<tag, priority>> proposals of props were committed.
Accept(props) ==
    [i \in DOMAIN accepted_max |->
        IF \E pr \in props : pr[1] = i /\ pr[2] > accepted_max[i]
        THEN (CHOOSE pr \in props : pr[1] = i /\ pr[2] > accepted_max[i])[2]
        ELSE accepted_max[i]]

(***************************************************************************)
(* Top-level calls on the Path Authority.                                  *)
(***************************************************************************)
SetPath(index, new_path_no_ext, ensure_unique_name) ==
    /\ Idle
    /\ \E r \in {set_path(tag_path_handler, index, new_path_no_ext,
                          ensure_unique_name, FALSE)} :
           /\ tag_path_handler' = r.h
           /\ raised' = r.raised
    /\ call' = [op |-> "set_path", index |-> index, path |-> new_path_no_ext,
                ensure_unique_name |-> ensure_unique_name]
    /\ before' = tag_path_handler
    /\ returned' = NonePriority
    /\ nops' = nops + 1
    /\ UNCHANGED << halo_map, stack, seen, accepted_max >>

SetPathByPriority(index, new_path_no_ext, priority, override) ==
    /\ Idle
    /\ \E r \in {set_path_by_priority(tag_path_handler, index, new_path_no_ext,
                                      priority, override)} :
           /\ tag_path_handler' = r.h
           /\ raised' = r.raised
           /\ returned' = r.ret
           /\ accepted_max' = IF r.committed
                              THEN Accept({<<Mask(index), r.ret>>})
                              ELSE accepted_max
    /\ call' = [op |-> "set_path_by_priority", index |-> index,
                path |-> new_path_no_ext, priority |-> priority,
                override |-> override]
    /\ before' = tag_path_handler
    /\ nops' = nops + 1
    /\ UNCHANGED << halo_map, stack, seen >>

\* shorten_paths(max_len, print_errors=print_errors)
ShortenPaths(max_len, print_errors) ==
    /\ Idle
    /\ \E r \in {shorten_paths(tag_path_handler, max_len, print_errors)} :
           /\ tag_path_handler' = r.h
           /\ raised' = r.raised
           /\ call' = [op |-> "shorten_paths", max_len |-> max_len,
                       print_errors |-> print_errors, printed |-> r.printed]
    /\ before' = tag_path_handler
    /\ returned' = NonePriority
    /\ nops' = nops + 1
    /\ UNCHANGED << halo_map, stack, seen, accepted_max >>

\* get_sub_dir(index, root), called on its own; an exception ends the run.
GetSubDir(index, root) ==
    /\ Idle
    /\ \E r \in {get_sub_dir(tag_path_handler, index, root)} :
           /\ raised' = r.raised
           /\ call' = [op |-> "get_sub_dir", index |-> index, root |-> root,
                       ret |-> r.ret]
    /\ before' = tag_path_handler
    /\ returned' = NonePriority
    /\ nops' = nops + 1
    /\ UNCHANGED << tag_path_handler, halo_map, stack, seen, accepted_max >>

\* shorten_name_to_parent(parent, name), called on its own.
ShortenNameToParent(parent, name) ==
    /\ Idle
    /\ call' = [op |-> "shorten_name_to_parent", parent |-> parent,
                name |-> name, ret |-> shorten_name_to_parent(parent, name)]
    /\ before' = tag_path_handler
    /\ returned' = NonePriority
    /\ nops' = nops + 1
    /\ UNCHANGED << tag_path_handler, halo_map, stack, seen, raised,
                    accepted_max >>

(***************************************************************************)
(* The Walker.                                                             *)
(***************************************************************************)
\* A top-level heuristic_deprotect(tag_id, halo_map, tag_path_handler,
\* root_dir, "", name, **kw) call, with a fresh seen set.  rerun tells that
\* it repeats the call before it, argument for argument.  Two fields of the
\* call record keep a history of the walk: visits, the reference chains of
\* the calls that went past the early returns, in call order, and folds,
\* for each call in progress (and for the top-level call after it returned)
\* the set of values assigned to its min_priority.
Walk(tag_id, root_dir, name, kw) ==
    /\ Idle
    /\ \E r \in {WalkCall(tag_path_handler, {}, << >>, tag_id,
                          root_dir, << >>, name, kw)} :
           /\ tag_path_handler' = r.h
           /\ seen' = r.seen
           /\ stack' = r.frames
           /\ returned' = IF r.returned THEN r.val ELSE NonePriority
           /\ accepted_max' = Accept(r.accepted)
           /\ call' = [op |-> "walk", tag_id |-> tag_id, root_dir |-> root_dir,
                       name |-> name, kw |-> kw, done |-> r.returned,
                       visits |-> r.visited,
                       folds |-> IF r.visited = << >> THEN << >>
                                 ELSE IF r.returned THEN << {r.val} >>
                                 ELSE << {} >>,
                       rerun |-> /\ call.op = "walk"
                                 /\ call.tag_id = tag_id
                                 /\ call.root_dir = root_dir
                                 /\ call.name = name
                                 /\ call.kw = kw]
    /\ before' = tag_path_handler
    /\ nops' = nops + 1
    /\ UNCHANGED << halo_map, raised >>

\* The try of lines 54-58 with the exception handed on to the caller of
\* heuristic_deprotect.
CaughtByWalker_reraised(exc) == exc

\* "except Exception: print(format_exc())" of lines 57-58: what is still
\* raised after the try statement, given the exception the rename function
\* raised ("" if none).
CaughtByWalker(exc) == ""

Top == stack[Len(stack)]

\* rename_tagc up to its loop: the tag's own proposal at LOW_PRIORITY and the
\* directory its references are put in.  An exception (get_sub_dir's) leaves
\* the rename function; heuristic_deprotect catches and prints it.
PolicyStart ==
    /\ raised = "" /\ stack # << >> /\ Top.pc = "start"
    /\ \E f \in {Top} :
          IF ~halo_map[Mask(f.tag_id) + 1].present
          THEN /\ stack' = [stack EXCEPT ![Len(stack)].pc = "return"]
               /\ UNCHANGED << tag_path_handler, accepted_max, raised, call >>
          ELSE \E r \in {rename_tagc_proposal(
                            tag_path_handler, f.tag_id, f.root_dir, f.sub_dir,
                            f.name, f.kw.override)} :
               \E sd \in {IF r.raised # ""
                          THEN [raised |-> r.raised, ret |-> << >>]
                          ELSE get_sub_dir(r.h, f.tag_id, f.root_dir)} :
                   /\ tag_path_handler' = r.h
                   /\ accepted_max' = IF r.committed
                                      THEN Accept({<<Mask(f.tag_id), r.ret>>})
                                      ELSE accepted_max
                   /\ raised' = CaughtByWalker(sd.raised)
                   /\ call' = [call EXCEPT
                                 !.folds[Len(stack)] =
                                     IF r.raised # "" THEN @
                                     ELSE @ \cup {r.ret}]
                   /\ stack' = [stack EXCEPT ![Len(stack)] =
                        [f EXCEPT
                           !.min_priority =
                               IF r.raised # "" THEN @
                               ELSE MinPriorityFold(@, r.ret),
                           !.kw.priority = LOW_PRIORITY,
                           !.sub_dir = IF sd.raised # "" THEN f.sub_dir
                                       ELSE sd.ret \o get_basename(r.h, f.tag_id)
                                              \o <<"\\">>,
                           !.pc = IF sd.raised # "" THEN "return" ELSE "loop"]]
    /\ UNCHANGED << halo_map, seen, before, returned, nops >>

\* One iteration of rename_tagc's loop:
\* min_prio.val = heuristic_deprotect(get_tag_id(b.tag), **kw)
PolicyCall ==
    /\ raised = "" /\ stack # << >> /\ Top.pc = "loop"
    /\ \E f \in {Top} :
          /\ f.next <= Len(halo_map[Mask(f.tag_id) + 1].refs)
          /\ \E r \in {WalkCall(tag_path_handler, seen, stack,
                                halo_map[Mask(f.tag_id) + 1].refs[f.next],
                                f.root_dir, f.sub_dir, << >>, f.kw)} :
                /\ tag_path_handler' = r.h
                /\ seen' = r.seen
                /\ stack' = r.frames
                /\ accepted_max' = Accept(r.accepted)
                /\ call' = [call EXCEPT
                              !.visits = @ \o r.visited,
                              !.folds = IF r.returned
                                        THEN [@ EXCEPT ![Len(stack)] =
                                                          @ \cup {r.val}]
                                        ELSE Append(@, {})]
    /\ UNCHANGED << halo_map, before, returned, raised, nops >>

\* The end of a heuristic_deprotect call that ran a rename function:
\* seen.remove, set_priority_min, return min_priority.val.
WalkReturn ==
    /\ raised = "" /\ stack # << >>
    /\ \E f \in {Top} :
          /\ \/ f.pc = "return"
             \/ f.pc = "loop" /\ f.next > Len(halo_map[Mask(f.tag_id) + 1].refs)
          /\ seen' = SeenRemove(seen, Mask(f.tag_id))
          /\ tag_path_handler' =
               set_priority_min(tag_path_handler, Mask(f.tag_id), f.min_priority)
          /\ stack' = FoldIntoCaller(SubSeq(stack, 1, Len(stack) - 1),
                                     f.min_priority)
          /\ IF Len(stack) = 1
             THEN /\ returned' = f.min_priority
                  /\ call' = [call EXCEPT !.done = TRUE]
             ELSE /\ UNCHANGED returned
                  /\ call' = [call EXCEPT
                                !.folds =
                                    [SubSeq(@, 1, Len(stack) - 1) EXCEPT
                                        ![Len(stack) - 1] =
                                            @ \cup {f.min_priority}]]
    /\ UNCHANGED << halo_map, before, raised, nops, accepted_max >>

(***************************************************************************)
(* Specifications.                                                         *)
(***************************************************************************)
\* The Path Authority driven by direct calls and by walks.
Next ==
    \/ \E index \in CallIds, path \in RawPaths :
          SetPath(index, path, TRUE)
    \/ \E index \in CallIds, path \in PriorityPaths,
          priority \in CallPriorities, override \in BOOLEAN :
          SetPathByPriority(index, path, priority, override)
    \/ \E tag_id \in CallIds, root_dir \in RootDirs, name \in WalkNames,
          kw \in WalkOptions :
          Walk(tag_id, root_dir, name, kw)
    \/ PolicyStart
    \/ PolicyCall
    \/ WalkReturn

Spec == Init /\ [][Next]_vars

\* The Path Compactor run on paths that direct calls have set.
InitCompact == InitFrom(CompactIndexes)

NextCompact ==
    \/ \E index \in CallIds, path \in RawPaths :
          SetPath(index, path, TRUE)
    \/ \E max_len \in Budgets, print_errors \in BOOLEAN :
          ShortenPaths(max_len, print_errors)

SpecCompact == InitCompact /\ [][NextCompact]_vars

\* The Path Authority and the Walker called with any identity: set_path with
\* and without unique names, get_sub_dir, and walks.
InitCalls == InitFrom({IndexRefs})

NextCalls ==
    \/ \E index \in AnyIds, path \in AnyPaths, ensure_unique_name \in BOOLEAN :
          SetPath(index, path, ensure_unique_name)
    \/ \E index \in AnyIds, root \in SubDirRoots :
          GetSubDir(index, root)
    \/ \E tag_id \in AnyIds, root_dir \in RootDirs, name \in AnyWalkNames,
          kw \in FewWalkOptions :
          Walk(tag_id, root_dir, name, kw)
    \/ PolicyStart
    \/ PolicyCall
    \/ WalkReturn

SpecCalls == InitCalls /\ [][NextCalls]_vars

\* set_path on fonts, whose category is permanently suffixed.
InitSuffix == InitFrom({IndexFonts})

NextSuffix ==
    \E index \in CallIds, path \in SuffixPaths, ensure_unique_name \in BOOLEAN :
        SetPath(index, path, ensure_unique_name)

SpecSuffix == InitSuffix /\ [][NextSuffix]_vars

\* The Walker on the diamond and on the cycle, with no root directory.
InitWalk == InitFrom({IndexDiamond, IndexCycle})

NextWalk ==
    \/ \E tag_id \in DiamondIds, kw \in DiamondOptions :
          Walk(tag_id, << >>, <<"a">>, kw)
    \/ PolicyStart
    \/ PolicyCall
    \/ WalkReturn

SpecWalk == InitWalk /\ [][NextWalk]_vars

\* shorten_name_to_parent applied to names and parent names.
NextNames ==
    \E parent \in FoldNames, name \in FoldNames :
        ShortenNameToParent(parent, name)

InitNames == InitFrom({IndexFold})

SpecNames == InitNames /\ [][NextNames]_vars

(***************************************************************************)
(* Properties.                                                             *)
(***************************************************************************)
Ids == DOMAIN tag_path_handler.index_map

\* The priority a proposal carries: None stands for the default priority.
Candidate(priority) == IF priority = NonePriority THEN def_priority ELSE priority

\* The last call was set_path_by_priority on a tag of the index.
ProposalMade ==
    call.op = "set_path_by_priority" /\ InRange(before, call.index)

\* The tag the last set_path_by_priority call named, as it was before the call.
ProposedRef == before.index_map[Mask(call.index)]

\* C1: starting from an index of pairwise distinct (lowercased path,
\* category) pairs, after any sequence of set_path (uniqueness on),
\* set_path_by_priority and walk calls no two distinct tags have the same
\* normalized (path, category) pair.
C1_UniquePaths ==
    \A i, j \in Ids :
        i # j => FullPath(tag_path_handler.index_map[i])
                    # FullPath(tag_path_handler.index_map[j])

\* A set_path call asked for a name another tag held, and returned.
C1_Witness ==
    /\ call.op = "set_path" /\ raised = "" /\ InRange(before, call.index)
    /\ call.path # << >>
    /\ MapGet(before.path_map,
              Lower(call.path) \o <<".">>
                  \o before.index_map[Mask(call.index)].class_1)
          \notin {NoneId, Mask(call.index)}
    /\ tag_path_handler # before

\* C2: for a pinned (indexed) tag, set_path_by_priority with any path, any
\* priority and either override is a silent no-op: path, priority and path
\* map are unchanged, nothing is raised, and the tag's current priority
\* (+infinity) is returned.
C2_PinnedNoOp ==
    (ProposalMade /\ ProposedRef.indexed) =>
        /\ tag_path_handler = before
        /\ raised = ""
        /\ returned = get_priority(before, call.index)
        /\ returned = INF

\* A pinned tag was proposed a path with override at priority +infinity, the
\* only priority its own does not exceed.
C2_Witness ==
    /\ ProposalMade /\ ProposedRef.indexed
    /\ call.override /\ call.priority = INF /\ call.path # << >>

\* C3: across any sequence of set_path_by_priority and walk calls, a tag's
\* recorded priority never decreases, and it equals the maximum of its
\* initial priority and the proposals accepted for it.
C3_PriorityMonotone ==
    /\ [](\A i \in Ids : tag_path_handler.priorities[i] = accepted_max[i])
    /\ [][\A i \in Ids : tag_path_handler'.priorities[i]
                            >= tag_path_handler.priorities[i]]_vars

\* A proposal was accepted for an unpinned tag whose priority an earlier
\* accepted proposal had already raised.
C3_Witness ==
    /\ call.op \in {"set_path_by_priority", "walk"}
    /\ \E i \in Ids :
          /\ ~tag_path_handler.index_map[i].indexed
          /\ def_priority < before.priorities[i]
          /\ before.priorities[i] < tag_path_handler.priorities[i]

\* C4: for two tags A and B that reference each other, a walk started at A
\* (or B) with unlimited depth ends with both A and B assigned a path by it.
\* The walk is the first call on the index of the two tag collections.
C4_CycleAssignsBoth ==
    (/\ call.op = "walk" /\ call.done /\ nops = 1
     /\ halo_map = IndexCycle.meta
     /\ call.tag_id \in {0, 1} /\ call.kw.depth = INF) =>
        \A i \in {0, 1} :
            tag_path_handler.index_map[i].path # before.index_map[i].path

\* C5: a second walk from the same root with identical arguments leaves
\* every tag's path as the first walk left it.
C5_WalkIdempotent ==
    (call.op = "walk" /\ call.done /\ call.rerun) =>
        \A i \in Ids :
            tag_path_handler.index_map[i].path = before.index_map[i].path

\* C6: after shorten_paths(max_len) returns without raising or reporting,
\* every tag's path is at most max_len long.  Stated for the tags the
\* compactor may rewrite (the unpinned ones).
C6_WithinBudget ==
    (call.op = "shorten_paths" /\ raised = "" /\ ~call.printed) =>
        \A i \in Ids :
            ~tag_path_handler.index_map[i].indexed =>
                Len(tag_path_handler.index_map[i].path) <= call.max_len

\* C7: after shorten_paths no two distinct tags have the same (path, category)
\* pair, and no sibling entry has replaced another: every tag at or over the
\* limit still has its own leaf in the shortened directory tree.
C7_NoSiblingReplaced ==
    (call.op = "shorten_paths" /\ raised = "" /\ ~call.printed) =>
        /\ \A i, j \in Ids :
              i # j => FullPath(tag_path_handler.index_map[i])
                          # FullPath(tag_path_handler.index_map[j])
        /\ LET new == FirstPass(before, call.max_len).new
           IN  \A e \in TrieLeaves(before, call.max_len) :
                  e.val # NoneId =>
                      \E q \in DOMAIN new.leaves : new.leaves[q] = e.val

\* C8: shorten_paths never changes the path of a pinned (indexed) tag,
\* whatever its length and whatever the limit.
C8_PinnedKept ==
    call.op = "shorten_paths" =>
        \A i \in Ids :
            tag_path_handler.index_map[i].indexed =>
                tag_path_handler.index_map[i].path = before.index_map[i].path

\* shorten_paths returned, and the second pass reached the leaf of a pinned
\* tag at or over the limit.
C8_Witness ==
    /\ call.op = "shorten_paths" /\ raised = "" /\ ~call.printed
    /\ LET new == FirstPass(before, call.max_len).new
       IN  \E q \in DOMAIN new.leaves :
              /\ new.leaves[q] # NoneId
              /\ before.index_map[new.leaves[q]].indexed
              /\ Len(before.index_map[new.leaves[q]].path) > call.max_len

\* C9: set_path_by_priority on an unpinned tag with a candidate priority
\* strictly below the tag's current one is rejected whatever override is:
\* path, priority and path map are unchanged and the current priority is
\* returned.
C9_LowerRejected ==
    (/\ ProposalMade /\ ~ProposedRef.indexed
     /\ Candidate(call.priority) < get_priority(before, call.index)) =>
        /\ tag_path_handler = before
        /\ raised = ""
        /\ returned = get_priority(before, call.index)

\* A proposal below the tag's finite priority was made with override for a
\* path the tag does not have.
C9_Witness ==
    /\ ProposalMade /\ ~ProposedRef.indexed
    /\ Candidate(call.priority) < get_priority(before, call.index)
    /\ get_priority(before, call.index) < INF
    /\ call.override
    /\ call.path # << >> /\ Lower(call.path) # Lower(ProposedRef.path)

\* C10: for an unpinned tag and a candidate priority equal to its current
\* one, set_path_by_priority rejects the proposal (no mutation) when override
\* is false and commits the candidate path when override is true.
C10_EqualNeedsOverride ==
    (/\ ProposalMade /\ ~ProposedRef.indexed
     /\ Candidate(call.priority) = get_priority(before, call.index)) =>
        IF call.override
        THEN /\ raised = ""
             /\ returned = Candidate(call.priority)
             /\ tag_path_handler =
                    set_priority(
                        set_path(before, call.index, call.path, TRUE, TRUE).h,
                        call.index, Candidate(call.priority))
             /\ (/\ call.path # << >>
                 /\ MapGet(before.path_map,
                           Lower(call.path) \o <<".">> \o ProposedRef.class_1)
                       = NoneId
                 /\ ProposedRef.class_1 \notin perm_suffixed_tag_classes) =>
                    tag_path_handler.index_map[Mask(call.index)].path
                        = Lower(call.path)
        ELSE /\ tag_path_handler = before
             /\ raised = ""
             /\ returned = get_priority(before, call.index)

\* An equal-priority proposal without override, for a free path the tag does
\* not have, was made after the tag's priority had been raised.
C10_Witness ==
    /\ ProposalMade /\ ~ProposedRef.indexed
    /\ Candidate(call.priority) = get_priority(before, call.index)
    /\ get_priority(before, call.index) > def_priority
    /\ ~call.override
    /\ call.path # << >> /\ Lower(call.path) # Lower(ProposedRef.path)

\* C11: for an unpinned tag whose current priority is strictly below the
\* candidate, set_path_by_priority accepts the proposal with or without
\* override: nothing is raised, the path map maps the tag's new full path to
\* the tag, the tag's priority is the candidate, and the candidate is
\* returned.
C11_HigherAccepted ==
    (/\ ProposalMade /\ ~ProposedRef.indexed
     /\ get_priority(before, call.index) < Candidate(call.priority)) =>
        /\ raised = ""
        /\ returned = Candidate(call.priority)
        /\ tag_path_handler.priorities[Mask(call.index)]
              = Candidate(call.priority)
        /\ MapGet(tag_path_handler.path_map,
                  FullPath(tag_path_handler.index_map[Mask(call.index)]))
              = Mask(call.index)

\* A higher proposal without override, for a path another tag of the same
\* class held, so that the committed path is a disambiguated one.
C11_Witness ==
    /\ ProposalMade /\ ~ProposedRef.indexed
    /\ get_priority(before, call.index) < Candidate(call.priority)
    /\ ~call.override
    /\ call.path # << >>
    /\ MapGet(before.path_map,
              Lower(call.path) \o <<".">> \o ProposedRef.class_1)
          \notin {NoneId, Mask(call.index)}
    /\ tag_path_handler.index_map[Mask(call.index)].path # ProposedRef.path

\* C19: in the Path Authority state built from the tag index, before any
\* call, every pinned entry has priority +infinity, priority floor +infinity
\* and is not overwritable, and every unpinned entry has priority and
\* priority floor equal to the default priority and is overwritable.
C19_InitialState ==
    nops = 0 =>
        \A i \in Ids :
            IF tag_path_handler.index_map[i].indexed
            THEN /\ tag_path_handler.priorities[i] = INF
                 /\ tag_path_handler.priority_mins[i] = INF
                 /\ ~tag_path_handler.overwritables[i]
            ELSE /\ tag_path_handler.priorities[i] = def_priority
                 /\ tag_path_handler.priority_mins[i] = def_priority
                 /\ tag_path_handler.overwritables[i]

\* The freshly built state of an index with a pinned and an unpinned entry.
C19_Witness ==
    /\ nops = 0
    /\ \E i, j \in Ids :
          /\ tag_path_handler.index_map[i].indexed
          /\ ~tag_path_handler.index_map[j].indexed

\* halo_map.get_meta of the tag whose rename function is in progress.
TopMeta == halo_map[Mask(Top.tag_id) + 1]

\* C13: if the rename function (Naming Policy) of tag T raises during
\* walk(T), nothing is raised out of walk(T): the step that raises leaves
\* the call in progress with only its return left; the return removes T
\* from the visited set, writes T's priority floor from the accumulator and
\* hands the accumulator to the caller, whose loop is at its next reference.
\* A call whose rename function found the tag's meta is at "return" only
\* after an exception.
C13_PolicyFaultContained ==
    /\ [][(stack # << >> /\ Top.pc = "start" /\ TopMeta.present) =>
            /\ raised' = ""
            /\ Len(stack') = Len(stack)
            /\ stack'[Len(stack)].pc \in {"loop", "return"}]_vars
    /\ [][(stack # << >> /\ Top.pc = "return" /\ TopMeta.present) =>
            /\ raised' = ""
            /\ seen' = seen \ {Mask(Top.tag_id)}
            /\ tag_path_handler'.priority_mins[Mask(Top.tag_id)]
                  = Top.min_priority
            /\ Len(stack') = Len(stack) - 1
            /\ IF Len(stack) = 1
               THEN returned' = Top.min_priority /\ call'.done
               ELSE /\ stack'[Len(stack) - 1].pc = "loop"
                    /\ stack'[Len(stack) - 1].next
                          = stack[Len(stack) - 1].next + 1
                    /\ stack'[Len(stack) - 1].min_priority
                          <= Top.min_priority]_vars

\* A walk from tag collection 1 under root "r\" has ended: the rename
\* function of its first reference, tag collection 0, renamed the tag and
\* raised in get_sub_dir, and the second reference, tag 2, was renamed after
\* that.
C13_Witness ==
    /\ call.op = "walk" /\ call.done /\ raised = "" /\ stack = << >>
    /\ halo_map = IndexCycle.meta /\ Mask(call.tag_id) = 1
    /\ tag_path_handler.index_map[0].path # before.index_map[0].path
    /\ get_sub_dir(tag_path_handler, 0, call.root_dir).raised # ""
    /\ tag_path_handler.index_map[2].path # before.index_map[2].path
    /\ seen = {}

\* C14: if some tag's path has so many segments that (segments - 1) * 4
\* exceeds the budget, shorten_paths fails: it raises ValueError by default,
\* or prints the error and returns when print_errors is given; either way no
\* tag's path and no path map entry is changed by the call.
C14_TooNestedFails ==
    (/\ call.op = "shorten_paths"
     /\ \E i \in DOMAIN before.index_map :
           (Len(Parts(before.index_map[i].path)) - 1) * 4 > call.max_len) =>
        /\ tag_path_handler = before
        /\ IF call.print_errors
           THEN raised = "" /\ call.printed
           ELSE raised = "ValueError" /\ ~call.printed

\* shorten_paths was called with print_errors, after an earlier call, on
\* paths one of which (two segments, budget under 4) is too nested.
C14_Witness ==
    /\ call.op = "shorten_paths" /\ call.print_errors /\ nops > 1
    /\ \E i \in DOMAIN before.index_map :
          (Len(Parts(before.index_map[i].path)) - 1) * 4 > call.max_len
    /\ call.printed

\* C15: shorten_paths is deterministic.  Two handlers with the same tags,
\* paths, classes and pinned flags can differ only in the insertion order of
\* their path maps: whatever that order, the call with the same budget ends
\* the same way with the same path for every tag, because the names of one
\* directory are visited in sorted order.
C15_Deterministic ==
    call.op = "shorten_paths" =>
        \A order \in ItemOrders(before.path_map) :
            \E r \in {ShortenTrie(before, call.max_len, call.print_errors,
                                  TrieLeavesIn(before, call.max_len, order))} :
                /\ r.h.index_map = tag_path_handler.index_map
                /\ r.raised = raised
                /\ r.printed = call.printed

\* shorten_paths ran its first pass on a directory in which two siblings
\* were given the same shortened name, so that the order of the visit decided
\* which of them is kept.
C15_Witness ==
    /\ call.op = "shorten_paths"
    /\ ~TooNested(before, call.max_len)
    /\ \E first \in {FirstPass(before, call.max_len)} :
          /\ first.raised = ""
          /\ Cardinality(DOMAIN first.new.leaves)
                < Cardinality(TrieLeaves(before, call.max_len))

\* The words of a name: its pieces between "_" and " ".
WordsOf(s) == Split(Replace(s, "_", " "), " ")

\* The length of the longest run of leading words that a and b share.
LongestLead(a, b) ==
    LET m == IF Len(a) < Len(b) THEN Len(a) ELSE Len(b)
        shared == {k \in 0..m : \A i \in 1..k : a[i] = b[i]}
    IN  CHOOSE k \in shared : \A x \in shared : x <= k

\* The length of the longest run of trailing words that a and b share.
LongestTrail(a, b) ==
    LET m == IF Len(a) < Len(b) THEN Len(a) ELSE Len(b)
        shared == {k \in 0..m :
                      \A i \in 0..(k - 1) : a[Len(a) - i] = b[Len(b) - i]}
    IN  CHOOSE k \in shared : \A x \in shared : x <= k

\* C16: shorten_name_to_parent(parent, name) returns the words of name
\* without the longest run of leading words equal to the parent's leading
\* words and without the longest run of trailing words equal to the parent's
\* trailing words, the other words in order; nothing is returned when no
\* word is left.  For parent "pistol" and name "pistol_barrel" the result is
\* "barrel".
C16_FoldsSharedWords ==
    call.op = "shorten_name_to_parent" =>
        LET pw == WordsOf(call.parent)
            nw == WordsOf(call.name)
            left == Slice(nw, LongestLead(pw, nw) + 1,
                          Len(nw) - LongestTrail(pw, nw))
        IN  /\ IF left = << >> THEN call.ret = << >>
               ELSE WordsOf(call.ret) = left
            /\ (call.parent = pistol /\ call.name = pistol \o <<"_">> \o barrel)
                  => call.ret = barrel

\* A name of three words was folded to its middle word: its first word is
\* the parent's first and its last word the parent's last.
C16_Witness ==
    /\ call.op = "shorten_name_to_parent"
    /\ Len(WordsOf(call.name)) = 3 /\ Len(WordsOf(call.parent)) = 2
    /\ LongestLead(WordsOf(call.parent), WordsOf(call.name)) = 1
    /\ LongestTrail(WordsOf(call.parent), WordsOf(call.name)) = 1
    /\ call.ret = WordsOf(call.name)[2]

\* The identity is None or, masked, not in the tag index of handler h.
NotATag(h, tag_id) == tag_id = NoneId \/ Mask(tag_id) \notin DOMAIN h.index_map

\* C12: a walk called with None, or with an identity whose masked value is
\* not in the tag index, returns +infinity at once and changes nothing: no
\* path, priority, priority floor or visited-set entry.  For a top-level call
\* the handler is the one before the call, the visited set is empty and no
\* call is left in progress; for such a reference met in a rename function's
\* loop the step changes only the loop's position, and the caller's
\* accumulator (its minimum with +infinity) keeps its value.
C12_InvalidIdentityNoOp ==
    /\ []((call.op = "walk" /\ NotATag(before, call.tag_id)) =>
            /\ call.done /\ returned = INF /\ raised = ""
            /\ tag_path_handler = before
            /\ seen = {} /\ stack = << >>)
    /\ [][(/\ stack # << >> /\ Top.pc = "loop"
           /\ Top.next <= Len(TopMeta.refs)
           /\ NotATag(tag_path_handler, TopMeta.refs[Top.next])) =>
            /\ tag_path_handler' = tag_path_handler
            /\ seen' = seen
            /\ raised' = raised
            /\ stack' = [stack EXCEPT ![Len(stack)].next = @ + 1]]_vars

\* A rename function's loop has passed a None reference and a reference that
\* is not in the index, with its accumulator at the priority of the tag's own
\* accepted proposal, and is at its third reference.
C12_Witness ==
    /\ stack # << >> /\ Top.pc = "loop" /\ Top.next = 3
    /\ TopMeta.refs[1] = NoneId
    /\ NotATag(tag_path_handler, TopMeta.refs[2])
    /\ Top.min_priority = LOW_PRIORITY
    /\ call.op = "walk" /\ call.tag_id = MASK

\* The key set_path is asked for: the lowercased path with the class of the
\* tag, "protected_<index>" standing for an empty path.
AskedKey(h, index, path) ==
    (IF path = << >> THEN protected_ \o DecStr(Mask(index)) ELSE Lower(path))
        \o <<".">> \o Lower(h.index_map[Mask(index)].class_1)

\* C17: when set_path, with unique names not enforced, is asked for a full
\* path that another tag owns, and the tag's class is not one whose digit
\* suffix makes set_path probe anyway, the call raises (KeyError) and leaves
\* the path map and the tag's path as they were.
C17_CollisionFails ==
    (/\ call.op = "set_path" /\ ~call.ensure_unique_name
     /\ InRange(before, call.index)
     /\ before.index_map[Mask(call.index)].class_1
           \notin perm_suffixed_tag_classes
     /\ MapGet(before.path_map, AskedKey(before, call.index, call.path))
           \notin {NoneId, Mask(call.index)}) =>
        /\ raised = "KeyError"
        /\ tag_path_handler.path_map = before.path_map
        /\ tag_path_handler.index_map = before.index_map

\* set_path without unique names was asked, through an identity with high
\* bits, to give a bitmap the path of the other bitmap.
C17_Witness ==
    /\ call.op = "set_path" /\ ~call.ensure_unique_name
    /\ call.index = MASK + 1 /\ call.path # << >>
    /\ MapGet(before.path_map, AskedKey(before, call.index, call.path)) = 2
    /\ raised = "KeyError"

\* The directory pieces of a path without the leading pieces they share with
\* the pieces of root.
DirsBelowRoot(path, root) ==
    LET parts == Parts(path)
        dirs == Slice(parts, 1, Len(parts) - 1)
    IN  Slice(dirs, LongestLead(Parts(root), dirs) + 1, Len(dirs))

\* C20: get_sub_dir(index, root) returns the directories of the tag's path
\* without the leading ones it shares with root, each followed by "\", and
\* the empty string when none is left, for every tag path and every root,
\* roots that share leading directories with the path included.
C20_SubDirBelowRoot ==
    (call.op = "get_sub_dir" /\ InRange(before, call.index)) =>
        /\ raised = ""
        /\ LET left == DirsBelowRoot(before.index_map[Mask(call.index)].path,
                                     call.root)
           IN  call.ret = IF left = << >> THEN << >>
                          ELSE Join(left, "\\") \o <<"\\">>

\* Identities with bits set above the low 16.
HighIds == {v \in AnyIds : v # NoneId /\ v >= MASK}

\* C18: every accessor and mutator of the Path Authority, and the Walker,
\* treat an identity with bits above the low 16 as they treat the identity
\* masked to its low 16 bits: same value returned, same state change.  For
\* the handler operations this is stated at every reachable handler and for
\* every argument of the model; for the Walker, for its decision to return
\* or to go on, and for the proposal that the rename function it calls
\* makes with the identity it is handed.
C18_HighBitsIgnored ==
    /\ \A v \in HighIds :
          \E h \in {tag_path_handler} :
          \E m \in {Mask(v)} :
             /\ InRange(h, v) = InRange(h, m)
             /\ get_priority(h, v) = get_priority(h, m)
             /\ get_priority_min(h, v) = get_priority_min(h, m)
             /\ get_overwritable(h, v) = get_overwritable(h, m)
             /\ get_basename(h, v) = get_basename(h, m)
             /\ \A root \in SubDirRoots :
                   get_sub_dir(h, v, root) = get_sub_dir(h, m, root)
             /\ \A priority \in CallPriorities, override \in BOOLEAN :
                   /\ get_will_overwrite(h, v, priority, override)
                         = get_will_overwrite(h, m, priority, override)
                   /\ \A path \in PriorityPaths :
                         set_path_by_priority(h, v, path, priority, override)
                            = set_path_by_priority(h, m, path, priority,
                                                   override)
                   /\ set_priority(h, v, Candidate(priority))
                         = set_priority(h, m, Candidate(priority))
                   /\ set_priority_min(h, v, Candidate(priority))
                         = set_priority_min(h, m, Candidate(priority))
                   /\ set_overwritable(h, v, override)
                         = set_overwritable(h, m, override)
             /\ \A path \in RawPaths, ensure_unique_name \in BOOLEAN :
                   set_path(h, v, path, ensure_unique_name, FALSE)
                      = set_path(h, m, path, ensure_unique_name, FALSE)
             /\ \A kw \in FewWalkOptions :
                   WalkDecision(h, seen, v, kw) = WalkDecision(h, seen, m, kw)
    /\ (stack # << >> /\ Top.pc = "start" /\ TopMeta.present) =>
          \E f \in {Top} :
             rename_tagc_proposal(tag_path_handler, f.tag_id, f.root_dir,
                                  f.sub_dir, f.name, f.kw.override)
                = rename_tagc_proposal(tag_path_handler, Mask(f.tag_id),
                                       f.root_dir, f.sub_dir, f.name,
                                       f.kw.override)

\* The last call was set_path, on a tag of the index, with an empty path or
\* a path that ends in the directory separator.
NoBasenameGiven ==
    /\ call.op = "set_path" /\ InRange(before, call.index)
    /\ (call.path = << >> \/ call.path[Len(call.path)] = "\\")

\* C21: set_path called with an empty path or a path ending in a directory
\* separator, when it returns, has given the tag a path inside the given
\* directory (lowercased) whose basename starts with protected_<identity>,
\* the identity masked to its low 16 bits; the basename is exactly that name
\* unless the name was taken by another tag of the class or the class is a
\* permanently suffixed one, in which cases set_path's suffix is added to it.
C21_ProtectedBasename ==
    (NoBasenameGiven /\ raised = "") =>
        \E parts \in {Parts(tag_path_handler.index_map[Mask(call.index)].path)} :
        \E name \in {protected_ \o DecStr(Mask(call.index))} :
        \E ref \in {before.index_map[Mask(call.index)]} :
            /\ parts # << >>
            /\ Slice(parts, 1, Len(parts) - 1) = Parts(Lower(call.path))
            /\ StartsWith(parts[Len(parts)], name)
            /\ (/\ ref.class_1 \notin perm_suffixed_tag_classes
                /\ MapGet(before.path_map,
                          Lower(call.path) \o name \o <<".">> \o ref.class_1)
                      \in {NoneId, Mask(call.index)}) =>
                   parts[Len(parts)] = name

\* set_path was called with a directory-terminated path and an identity with
\* bits above the low 16, and returned.
C21_Witness ==
    /\ NoBasenameGiven /\ raised = ""
    /\ call.path # << >> /\ call.index >= MASK
    /\ tag_path_handler.index_map[Mask(call.index)].path
          = <<"c", "\\">> \o protected_ \o <<"1">>

\* The reference that the loop of the rename function in progress is at.
NextRef == TopMeta.refs[Top.next]

\* The loop of the rename function in progress is at a reference to a tag
\* of the index.
AtTagRef ==
    /\ stack # << >> /\ Top.pc = "loop" /\ Top.next <= Len(TopMeta.refs)
    /\ InRange(tag_path_handler, NextRef)

\* C22: walk called for a tag that is in the visited set, or with a
\* remaining depth below 0, returns the tag's current priority floor and
\* mutates nothing: no rename function is entered and no call goes past the
\* early returns, the handler (paths, priorities, floors) and the visited
\* set are unchanged, and the caller's loop folds the floor into its
\* accumulator and moves to its next reference.
C22_StopReturnsFloor ==
    [][(AtTagRef /\ (Mask(NextRef) \in seen \/ Top.kw.depth < 0)) =>
          /\ tag_path_handler' = tag_path_handler
          /\ seen' = seen
          /\ raised' = ""
          /\ accepted_max' = accepted_max
          /\ call'.visits = call.visits
          /\ call'.folds =
                [call.folds EXCEPT
                    ![Len(stack)] =
                        @ \cup {get_priority_min(tag_path_handler, NextRef)}]
          /\ stack' =
                [stack EXCEPT
                    ![Len(stack)].next = @ + 1,
                    ![Len(stack)].min_priority =
                        MinPriorityFold(
                            @, get_priority_min(tag_path_handler, NextRef))]
      ]_vars

\* In a walk of unlimited depth the loop of a rename function has passed its
\* first reference, a tag whose own call is still in progress.
C22_Witness ==
    /\ call.op = "walk" /\ call.kw.depth = INF
    /\ stack # << >> /\ Top.pc = "loop" /\ Top.next = 2
    /\ InRange(tag_path_handler, TopMeta.refs[1])
    /\ Mask(TopMeta.refs[1]) \in seen
    /\ Mask(TopMeta.refs[1]) # Mask(Top.tag_id)

\* The last call was a top-level walk of a tag of the index with
\* use_minimum_priorities and a priority.
FloorTestedWalk ==
    /\ call.op = "walk" /\ InRange(before, call.tag_id)
    /\ call.kw.use_minimum_priorities /\ call.kw.priority # NonePriority
    /\ call.kw.depth >= 0

\* C23: with use_minimum_priorities set and a priority p given, walk on a
\* tag whose priority floor is strictly greater than p returns the floor
\* without going past the early returns (no rename function, no proposal,
\* no state change), and on a tag whose floor is strictly less than p it
\* performs the full traversal.  Stated for top-level walks, and, as a step
\* property, for the calls a rename function makes for its references (whose
\* priority is the one the rename function passes on).
C23_FloorShortCircuit ==
    /\ [](FloorTestedWalk =>
            /\ get_priority_min(before, call.tag_id) > call.kw.priority =>
                  /\ call.done /\ stack = << >> /\ seen = {}
                  /\ call.visits = << >>
                  /\ tag_path_handler = before
                  /\ returned = get_priority_min(before, call.tag_id)
            /\ get_priority_min(before, call.tag_id) < call.kw.priority =>
                  /\ call.visits # << >>
                  /\ call.visits[1] = <<Mask(call.tag_id)>>)
    /\ [][(/\ AtTagRef /\ Mask(NextRef) \notin seen /\ Top.kw.depth >= 0
           /\ Top.kw.use_minimum_priorities
           /\ Top.kw.priority # NonePriority) =>
             /\ get_priority_min(tag_path_handler, NextRef) > Top.kw.priority =>
                   /\ tag_path_handler' = tag_path_handler
                   /\ seen' = seen
                   /\ call'.visits = call.visits
                   /\ stack' =
                         [stack EXCEPT
                             ![Len(stack)].next = @ + 1,
                             ![Len(stack)].min_priority =
                                 MinPriorityFold(
                                     @, get_priority_min(tag_path_handler,
                                                         NextRef))]
             /\ get_priority_min(tag_path_handler, NextRef) < Top.kw.priority =>
                   call'.visits
                      = Append(call.visits, Chain(stack, Mask(NextRef)))
         ]_vars

\* A walk with use_minimum_priorities and the default priority was called
\* for an unpinned tag whose floor an earlier walk had raised, and returned
\* that floor.
C23_Witness ==
    /\ FloorTestedWalk /\ call.done
    /\ ~before.index_map[Mask(call.tag_id)].indexed
    /\ call.kw.priority = def_priority
    /\ get_priority_min(before, call.tag_id) = LOW_PRIORITY
    /\ returned = LOW_PRIORITY

\* C24: with use_minimum_priorities set, a priority p equal to the tag's
\* priority floor and return_on_equal_min_priority set, walk skips the
\* traversal and returns the floor, whatever the other options are: the call
\* does not go past the early returns and changes nothing.
C24_EqualFloorSkips ==
    (/\ call.op = "walk" /\ InRange(before, call.tag_id)
     /\ call.kw.use_minimum_priorities /\ call.kw.priority # NonePriority
     /\ call.kw.return_on_equal_min_priority
     /\ get_priority_min(before, call.tag_id) = call.kw.priority) =>
        /\ call.done /\ stack = << >>
        /\ call.visits = << >>
        /\ tag_path_handler = before
        /\ returned = get_priority_min(before, call.tag_id)

\* The number of calls of the walk that went past the early returns with
\* the reference chain c.
TimesVisited(c) == Cardinality({k \in DOMAIN call.visits : call.visits[k] = c})

\* The last call was a walk of unlimited depth and without
\* use_minimum_priorities, from A of the diamond, and it has returned.
DiamondWalked ==
    /\ call.op = "walk" /\ call.done /\ halo_map = IndexDiamond.meta
    /\ Mask(call.tag_id) = 0
    /\ ~call.kw.use_minimum_priorities /\ call.kw.depth = INF

\* C25: in the diamond (A references B and C, both reference D), a walk from
\* A with no priority short-circuit fully processes D twice, once under B
\* and once under C, and each call in between removes its tag from the
\* visited set when it returns, so that the set is empty after the walk.
C25_DiamondRevisits ==
    /\ [](DiamondWalked =>
            /\ TimesVisited(<<0, 1, 3>>) = 1
            /\ TimesVisited(<<0, 2, 3>>) = 1
            /\ Cardinality({k \in DOMAIN call.visits :
                               call.visits[k][Len(call.visits[k])] = 3}) = 2
            /\ seen = {})
    /\ [][(stack # << >> /\ Len(stack') < Len(stack)) =>
             seen' = seen \ {Mask(Top.tag_id)}]_vars

\* The walk from A has returned, and D has the path that its rename
\* function proposed the second time, under C.
C25_Witness ==
    /\ DiamondWalked /\ call.kw.override
    /\ TimesVisited(<<0, 2, 3>>) = 1
    /\ tag_path_handler.index_map[3].path
          = <<"a", "\\">> \o protected_ \o <<"2", "\\">> \o protected_ \o <<"3">>

\* The minimum of a set of priorities; +infinity for the empty set, the
\* value a fresh accumulator holds.
MinOf(S) == IF S = {} THEN INF ELSE CHOOSE m \in S : \A x \in S : m <= x

\* C26: after a walk of tag T that performs the full traversal, T's priority
\* floor equals the value the walk returned, and that value is the minimum
\* of the priorities returned by every set_path_by_priority call and every
\* nested walk folded into T's accumulator.  The accumulator of every call
\* in progress is the minimum of the values folded so far; a return writes
\* the accumulator to the tag's floor and hands it to the caller.
C26_FloorIsMinimum ==
    /\ [](call.op = "walk" =>
            /\ Len(stack) <= Len(call.folds)
            /\ \A k \in DOMAIN stack :
                  stack[k].min_priority = MinOf(call.folds[k])
            /\ (call.done /\ call.visits # << >>) =>
                  /\ returned = MinOf(call.folds[1])
                  /\ tag_path_handler.priority_mins[Mask(call.tag_id)]
                        = returned)
    /\ [][(stack # << >> /\ Len(stack') < Len(stack)) =>
             /\ tag_path_handler'.priority_mins[Mask(Top.tag_id)]
                   = MinOf(call.folds[Len(stack)])
             /\ Len(stack) > 1 =>
                   stack'[Len(stack) - 1].min_priority
                      = MinOf(call.folds[Len(stack) - 1]
                                 \cup {MinOf(call.folds[Len(stack)])})
         ]_vars

\* A walk from A of the diamond has returned the floor that its depth-stopped
\* references had, which is below the priority of A's own proposal.
C26_Witness ==
    /\ call.op = "walk" /\ call.done /\ halo_map = IndexDiamond.meta
    /\ Mask(call.tag_id) = 0
    /\ call.folds = << {LOW_PRIORITY, def_priority} >>
    /\ returned = def_priority
    /\ tag_path_handler.priority_mins[0] = def_priority
    /\ tag_path_handler.priorities[0] = LOW_PRIORITY

\* C27: the visited set and the remaining depth are each one object shared
\* by the whole call tree of a top-level walk: the visited set holds the
\* tags of exactly the calls in progress, whichever call added them, and
\* when a nested call returns, the remaining depth that its caller goes on
\* with (and passes to the sibling calls it makes next) is the depth as the
\* nested call left it, decrement included.  In the diamond a walk from A
\* with depth 1 then processes A and B only: B's decrement leaves the depth
\* below 0 for D and for C.
C27_SharedRecursionState ==
    /\ [](call.op = "walk" =>
            /\ seen = {Mask(stack[k].tag_id) : k \in DOMAIN stack}
            /\ (/\ call.done /\ halo_map = IndexDiamond.meta
                /\ Mask(call.tag_id) = 0 /\ call.kw.depth = 1) =>
                   call.visits = << <<0>>, <<0, 1>> >>)
    /\ [][(Len(stack) > 1 /\ Len(stack') < Len(stack)) =>
             stack'[Len(stack) - 1].kw.depth = Top.kw.depth]_vars

\* The last call was a top-level walk with a finite depth d >= 0.
DepthLimitedWalk ==
    call.op = "walk" /\ call.kw.depth # INF /\ call.kw.depth >= 0

\* C28: a walk started with a finite remaining depth d >= 0 fully processes
\* tags only along reference chains of at most d + 1 tags counted from the
\* root: the root is processed even when d = 0 (unless a priority floor
\* ends the call), no call in progress is deeper than d + 1, and a call
\* reached with a depth below 0 returns without processing its tag, in the
\* diamond and in the cycle alike.
C28_DepthBoundsChains ==
    /\ [](DepthLimitedWalk =>
            /\ Len(stack) <= call.kw.depth + 1
            /\ \A k \in DOMAIN call.visits :
                  Len(call.visits[k]) <= call.kw.depth + 1
            /\ (InRange(before, call.tag_id)
                   /\ ~call.kw.use_minimum_priorities) =>
                  /\ call.visits # << >>
                  /\ call.visits[1] = <<Mask(call.tag_id)>>)
    /\ [][(AtTagRef /\ Top.kw.depth < 0) =>
             /\ call'.visits = call.visits
             /\ tag_path_handler' = tag_path_handler
             /\ Len(stack') = Len(stack)
             /\ stack'[Len(stack)].next = Top.next + 1]_vars

\* A walk from A of the diamond with depth 1 has returned: B and C, the
\* second tags of their chains, were processed and D, the third, was not.
C28_Witness ==
    /\ DepthLimitedWalk /\ call.done /\ call.kw.depth = 1 /\ nops = 1
    /\ halo_map = IndexDiamond.meta /\ Mask(call.tag_id) = 0
    /\ TimesVisited(<<0, 1>>) = 1 /\ TimesVisited(<<0, 2>>) = 1
    /\ tag_path_handler.index_map[3].path = before.index_map[3].path
    /\ tag_path_handler.index_map[2].path # before.index_map[2].path

\* No rename function is registered for the class of the tag.
NoPolicy(h, tag_id) == ~HasRenameFunc(h.index_map[Mask(tag_id)].class_1)

\* C29: for a tag whose class has no rename function, a walk that passes
\* the early returns makes one set_path_by_priority call for the tag, with
\* the path root_dir + sub_dir + name, the priority and the override it was
\* given, calls no other tag, and returns the result of that call (which it
\* also writes to the tag's floor).  Stated for top-level walks, whose
\* sub_dir is empty, and as a step property for the calls that a rename
\* function makes for its references.
C29_DirectProposal ==
    /\ []((/\ call.op = "walk" /\ InRange(before, call.tag_id)
           /\ NoPolicy(before, call.tag_id) /\ call.visits # << >>) =>
            \E r \in {set_path_by_priority(
                         before, call.tag_id, call.root_dir \o call.name,
                         call.kw.priority, call.kw.override)} :
               /\ call.done /\ stack = << >>
               /\ call.visits = << <<Mask(call.tag_id)>> >>
               /\ returned = r.ret
               /\ tag_path_handler
                     = set_priority_min(r.h, call.tag_id, r.ret))
    /\ [][(/\ AtTagRef /\ NoPolicy(tag_path_handler, NextRef)
           /\ call'.visits # call.visits) =>
             \E r \in {set_path_by_priority(
                          tag_path_handler, NextRef,
                          Top.root_dir \o Top.sub_dir,
                          Top.kw.priority, Top.kw.override)} :
                /\ call'.visits
                      = Append(call.visits, Chain(stack, Mask(NextRef)))
                /\ tag_path_handler' = set_priority_min(r.h, NextRef, r.ret)
                /\ stack' =
                      [stack EXCEPT
                          ![Len(stack)].next = @ + 1,
                          ![Len(stack)].min_priority =
                              MinPriorityFold(@, r.ret)]
         ]_vars

\* A walk has returned in which a tag without rename function, referenced by
\* a tag collection, was given a path in the directory of the collection.
C29_Witness ==
    /\ call.op = "walk" /\ call.done
    /\ \E k \in DOMAIN call.visits :
          /\ Len(call.visits[k]) = 2
          /\ NoPolicy(before, call.visits[k][2])
          /\ StartsWith(tag_path_handler.index_map[call.visits[k][2]].path,
                        tag_path_handler.index_map[call.visits[k][1]].path
                            \o <<"\\">>)
          /\ tag_path_handler.index_map[call.visits[k][2]].path
                # before.index_map[call.visits[k][2]].path

\* C30: shorten_paths rewrites only tags whose path is longer than the
\* budget: a tag whose path length is less than or equal to max_len is a
\* leave-as-is leaf of the trie (no leaf carries the tag) and has the same
\* path after the call.
C30_WithinBudgetKept ==
    call.op = "shorten_paths" =>
        \A i \in DOMAIN before.index_map :
            Len(before.index_map[i].path) <= call.max_len =>
                /\ \A e \in TrieLeaves(before, call.max_len) : e.val # i
                /\ tag_path_handler.index_map[i].path
                      = before.index_map[i].path

\* The leaves of the old trie that the first pass queues in `reparent`
\* (lines 358-367): leaves of a sub-directory that carry a tag and whose
\* basename shorten_name_to_parent reduces to nothing against the new name
\* of their directory.
EmptyBasenames(h, max_len) ==
    {e \in TrieLeaves(h, max_len) :
        /\ e.val # NoneId
        /\ Len(e.dirs) = 1
        /\ shorten_name_to_parent(
               get_unique_name(<< >>, shorten_name_to_parent(<< >>, e.dirs[1]),
                               << >>, 0 - 3),
               SplitExt(e.name)[1]) = << >>}

\* C31: a leaf whose shortened basename is empty is queued and merged into
\* the parent level under a fresh name: shorten_paths returns normally and
\* the (unpinned) tag of that leaf has a new path that no other tag of its
\* category has.
C31_EmptyBasenameReparented ==
    (call.op = "shorten_paths" /\ ~TooNested(before, call.max_len)) =>
        \A e \in EmptyBasenames(before, call.max_len) :
            ~before.index_map[e.val].indexed =>
                /\ raised = ""
                /\ tag_path_handler.index_map[e.val].path
                       # before.index_map[e.val].path
                /\ \A j \in Ids \ {e.val} :
                       FullPath(tag_path_handler.index_map[j])
                           # FullPath(tag_path_handler.index_map[e.val])

\* C32: the path the second pass writes back to a rewritten tag is its full
\* path in the shortened trie: the new names of its directories in order,
\* followed by its own shortened basename.  Stated on the written path
\* itself, for every tag of a leaf of the new trie whose path shorten_paths
\* changed.
C32_FullPathWritten ==
    call.op = "shorten_paths" =>
        LET new == FirstPass(before, call.max_len).new
        IN  \A q \in DOMAIN new.leaves :
                LET val == new.leaves[q]
                IN  (/\ val # NoneId
                     /\ tag_path_handler.index_map[val].path
                            # before.index_map[val].path) =>
                        tag_path_handler.index_map[val].path
                            = PathStr(SubSeq(q, 1, Len(q) - 1)
                                          \o <<SplitExt(q[Len(q)])[1]>>)

\* The path map of h is the inverse of its tag table: its keys are the full
\* paths of the tags, and each maps to the tag that has it.
PathMapIsInverse(h) ==
    /\ DOMAIN h.path_map
           = {FullPath(h.index_map[i]) : i \in DOMAIN h.index_map}
    /\ \A i \in DOMAIN h.index_map :
           MapGet(h.path_map, FullPath(h.index_map[i])) = i

\* C33: after every set_path, set_path_by_priority and shorten_paths call
\* the path map is exactly the inverse of the tag table: one key per tag,
\* the tag's lowercased path plus category extension, mapped to that tag,
\* and no entry for an old path.
C33_PathMapInverse ==
    call.op \in {"set_path", "set_path_by_priority", "shorten_paths"} =>
        PathMapIsInverse(tag_path_handler)

\* C34: set_path is idempotent on a tag.  A set_path call that follows a
\* set_path call with the same tag, the same raw path and the same
\* ensure_unique_name raises nothing and leaves the tag table and the path
\* map as the first call left them, also when the first call had to append
\* a "#<n>" or "_" suffix.
C34_SetPathIdempotent ==
    [][(/\ call.op = "set_path"
        /\ call' = call
        /\ nops' = nops + 1) =>
           /\ raised' = ""
           /\ tag_path_handler'.index_map = tag_path_handler.index_map
           /\ tag_path_handler'.path_map = tag_path_handler.path_map]_vars

\* The second of two equal set_path calls returned; the first had given the
\* tag the raw path with "#1" appended, because another tag of the category
\* holds the raw path.
C34_Witness ==
    /\ call.op = "set_path" /\ nops = 2 /\ raised = ""
    /\ InRange(before, call.index)
    /\ MapGet(before.path_map,
              Lower(call.path) \o <<".">>
                  \o before.index_map[Mask(call.index)].class_1)
          \notin {NoneId, Mask(call.index)}
    /\ before.index_map[Mask(call.index)].path
          = Lower(call.path) \o <<"#", "1">>
    /\ tag_path_handler = before

\* The tag of a returned set_path call is of a permanently suffixed category.
SuffixForbidden ==
    /\ call.op = "set_path" /\ raised = "" /\ InRange(before, call.index)
    /\ Lower(before.index_map[Mask(call.index)].class_1)
           \in perm_suffixed_tag_classes

\* The path tag index has in handler h ends in a digit.
EndsInDigit(h, index) ==
    LET path == h.index_map[index].path
    IN  path # << >> /\ path[Len(path)] \in DIGIT_CHARS

\* C35: for a tag whose category forbids trailing numeric suffixes, the
\* basename a returned set_path call has committed does not end in a digit.
C35_NoDigitSuffix ==
    SuffixForbidden => ~EndsInDigit(tag_path_handler, Mask(call.index))

\* set_path gave a font a path another font held: the name was looked for
\* with "_" before the extension and committed with "_" appended.
C35_Witness ==
    /\ SuffixForbidden
    /\ MapGet(before.path_map,
              Lower(call.path) \o <<".">>
                  \o before.index_map[Mask(call.index)].class_1)
          \notin {NoneId, Mask(call.index)}
    /\ call.ensure_unique_name
    /\ tag_path_handler.index_map[Mask(call.index)].path
          = Lower(call.path) \o <<"_">>

\* The identities of the calls in progress, outermost first.
ActiveChain == [k \in DOMAIN stack |-> Mask(stack[k].tag_id)]

\* No identity occurs twice in the chain c.
NoRepeat(c) == \A j, k \in DOMAIN c : j # k => c[j] # c[k]

\* C36: during a walk the visited set is exactly the set of identities of
\* the calls in progress; no identity is twice on one chain, neither on the
\* chain of the calls in progress nor on the chain of any call that passed
\* the early returns; the nesting depth is at most the number of tags; and
\* the visited set is empty when the top-level walk has returned.
C36_SeenIsActiveChain ==
    /\ seen = {ActiveChain[k] : k \in DOMAIN stack}
    /\ NoRepeat(ActiveChain)
    /\ Len(stack) <= Cardinality(Ids)
    /\ call.op = "walk" =>
           /\ \A k \in DOMAIN call.visits :
                  /\ NoRepeat(call.visits[k])
                  /\ Len(call.visits[k]) <= Cardinality(Ids)
           /\ call.done => seen = {}

\* A walk that nested calls three deep has returned.
C36_Witness ==
    /\ call.op = "walk" /\ call.done /\ stack = << >>
    /\ \E k \in DOMAIN call.visits : Len(call.visits[k]) >= 3
    /\ seen = {}

\* C37: set_path on tag i changes only tag i's stored path and the path-map
\* entries of i's old and new full path.  After every set_path call, returned
\* or raised, on a valid identity or not: every priority, priority floor and
\* overwritable flag is as before, every other tag is as before and so is
\* the path-map entry of its full path, tag i keeps class and pin, and every
\* path-map key other than i's old and new full path maps as before.
C37_SetPathFrame ==
    call.op = "set_path" =>
        LET touched == IF InRange(before, call.index)
                       THEN {Mask(call.index)} ELSE {}
            keys == {FullPath(before.index_map[i]) : i \in touched}
                        \cup {FullPath(tag_path_handler.index_map[i]) :
                                 i \in touched}
        IN  /\ tag_path_handler.priorities = before.priorities
            /\ tag_path_handler.priority_mins = before.priority_mins
            /\ tag_path_handler.overwritables = before.overwritables
            /\ DOMAIN tag_path_handler.index_map = DOMAIN before.index_map
            /\ \A j \in Ids \ touched :
                   /\ tag_path_handler.index_map[j] = before.index_map[j]
                   /\ MapGet(tag_path_handler.path_map,
                             FullPath(before.index_map[j]))
                         = MapGet(before.path_map,
                                  FullPath(before.index_map[j]))
            /\ \A i \in touched :
                   /\ tag_path_handler.index_map[i].class_1
                         = before.index_map[i].class_1
                   /\ tag_path_handler.index_map[i].indexed
                         = before.index_map[i].indexed
            /\ \A k \in (DOMAIN tag_path_handler.path_map
                            \cup DOMAIN before.path_map) \ keys :
                   MapGet(tag_path_handler.path_map, k)
                       = MapGet(before.path_map, k)

\* set_path moved a tag from its old key to a new one while another tag
\* had a priority above the default and a path of its own.
C37_Witness ==
    /\ call.op = "set_path" /\ raised = "" /\ InRange(before, call.index)
    /\ FullPath(tag_path_handler.index_map[Mask(call.index)])
          # FullPath(before.index_map[Mask(call.index)])
    /\ MapGet(tag_path_handler.path_map,
              FullPath(before.index_map[Mask(call.index)])) = NoneId
    /\ MapGet(tag_path_handler.path_map,
              FullPath(tag_path_handler.index_map[Mask(call.index)]))
          = Mask(call.index)
    /\ \E j \in Ids \ {Mask(call.index)} :
          /\ ~before.index_map[j].indexed
          /\ before.priorities[j] > def_priority
          /\ tag_path_handler.path_map[FullPath(before.index_map[j])] = j

====
